---------------------------- MODULE Spec2Model ----------------------------
(***************************************************************************)
(* Model of the 9P2000.u file server of load81-picocalc: one client        *)
(* session of picocalc_9p.c (TCP callbacks, framing, dispatch, FID table),  *)
(* the message handlers of picocalc_9p_handlers.c, the codec cursor of      *)
(* picocalc_9p_proto.c and the filesystem adaptor of picocalc_9p_fs.c.      *)
(*                                                                         *)
(* Requests are byte sequences (0..255) exactly as they arrive in           *)
(* rx_buffer and are decoded with the cursor operations of the codec.       *)
(* 32- and 64-bit wire values are kept as their little-endian byte tuples   *)
(* (U32 == <<b0,b1,b2,b3>>) so that no width is lost; LEVal turns a tuple   *)
(* into a number where the code does arithmetic on it.                      *)
(* Responses are kept as the header written by p9_msg_finalize and the      *)
(* list of typed fields the handler wrote with p9_write_*.                  *)
(*                                                                         *)
(* The FAT32 driver (fat32_open, fat32_close, ...) is an external library:  *)
(* it is modelled as an environment holding a small directory tree, whose   *)
(* calls may also fail with an I/O error chosen by the environment.         *)
(* The storage mutex of picocalc_fat32_sync.c is taken only by the          *)
(* fat32_sync_* wrappers, all of which run on the server's core, so it is   *)
(* uncontended and its acquisition always succeeds in this model.           *)
(***************************************************************************)
EXTENDS Integers, Sequences, FiniteSets, TLC

(***************************************************************************)
(* Program constants                                                       *)
(***************************************************************************)
P9_MAX_MSG_SIZE == 8192
P9_MAX_WALK_ELEMENTS == 16
P9_QTDIR == 128
P9_QTFILE == 0
IOUNIT == 8192

Tversion == 100
Tauth == 102
Tattach == 104
Rerror == 107
Tflush == 108
Twalk == 110
Topen == 112
Tcreate == 114
Tread == 116
Twrite == 118
Tclunk == 120
Tremove == 122
Tstat == 124
Twstat == 126

(***************************************************************************)
(* Bounds of the model.                                                    *)
(*  MaxFidSlots stands for P9_MAX_FIDS_PER_CLIENT (64 in the source): the  *)
(*  table is an array of that many slots; it is scaled down so that a full *)
(*  table is reachable.                                                    *)
(*  PathBufLen stands for FAT32_MAX_PATH_LEN (the size of the path         *)
(*  buffers), scaled down so that the directory tree stays finite.         *)
(*  MaxMsgs caps the counter stats.messages_received: p9_tcp_recv is not   *)
(*  taken once that many requests have been processed.                     *)
(*  FileLen (defined with p9_read_file) is the length of every regular     *)
(*  file.                                                                  *)
(***************************************************************************)
MaxFidSlots == 2
PathBufLen == 6
MaxMsgs == 3

P9_MAX_FIDS_PER_CLIENT == MaxFidSlots
FAT32_MAX_PATH_LEN == PathBufLen

Byte == 0..255

(* the characters '/' and '.' *)
ChSlash == 47
ChDot == 46

(***************************************************************************)
(* Little-endian values                                                    *)
(***************************************************************************)
RECURSIVE LEVal(_)
LEVal(bs) == IF bs = <<>> THEN 0 ELSE Head(bs) + 256 * LEVal(Tail(bs))

le16(v) == <<v % 256, (v \div 256) % 256>>
le32(v) == <<v % 256, (v \div 256) % 256, (v \div 65536) % 256, (v \div 16777216) % 256>>

(* v > n for a 32-bit little-endian tuple v and a number n < 2^24 *)
U32Gt(v, n) == v[4] > 0 \/ LEVal(SubSeq(v, 1, 3)) > n
(* the value of a 32-bit tuple known not to exceed n < 2^24 *)
U32Small(v) == LEVal(SubSeq(v, 1, 3))
(* bit k (0..31) of a 32-bit tuple *)
U32Bit(v, k) == (v[(k \div 8) + 1] \div (2 ^ (k % 8))) % 2 = 1

NOFID == <<255, 255, 255, 255>>
Fid(n) == le32(n)

(***************************************************************************)
(* Codec cursor: p9_msg_t = [data, capacity, pos, error] and the header    *)
(* fields size, type, tag.  Every read returns [val, msg].                 *)
(***************************************************************************)
Fail(m, zero) == [val |-> zero, msg |-> [m EXCEPT !.error = TRUE]]

ReadN(m, n, zero) ==
    IF m.error \/ m.pos + n > m.capacity
    THEN Fail(m, zero)
    ELSE [val |-> SubSeq(m.data, m.pos + 1, m.pos + n),
          msg |-> [m EXCEPT !.pos = @ + n]]

p9_read_u8(m) ==
    LET r == ReadN(m, 1, <<0>>) IN [val |-> r.val[1], msg |-> r.msg]

p9_read_u16(m) ==
    LET r == ReadN(m, 2, <<0, 0>>) IN [val |-> LEVal(r.val), msg |-> r.msg]

p9_read_u32(m) == ReadN(m, 4, <<0, 0, 0, 0>>)

p9_read_u64(m) == ReadN(m, 8, <<0, 0, 0, 0, 0, 0, 0, 0>>)

(* ok: the function's return value; val: the string's bytes.               *)
p9_read_string(m) ==
    IF m.error
    THEN [ok |-> FALSE, val |-> <<>>, msg |-> m]
    ELSE LET l == p9_read_u16(m) IN
         IF l.msg.error
         THEN [ok |-> FALSE, val |-> <<>>, msg |-> l.msg]
         ELSE IF l.msg.pos + l.val > l.msg.capacity
              THEN [ok |-> FALSE, val |-> <<>>,
                    msg |-> [l.msg EXCEPT !.error = TRUE]]
              ELSE [ok |-> TRUE,
                    val |-> SubSeq(l.msg.data, l.msg.pos + 1, l.msg.pos + l.val),
                    msg |-> [l.msg EXCEPT !.pos = @ + l.val]]

p9_msg_init_read(buffer, size) ==
    LET m0 == [data |-> buffer, capacity |-> size, pos |-> 0, error |-> FALSE,
               size |-> 0, type |-> 0, tag |-> 0]
        s == p9_read_u32(m0)
        t == p9_read_u8(s.msg)
        g == p9_read_u16(t.msg)
        sz == IF U32Gt(s.val, P9_MAX_MSG_SIZE) THEN P9_MAX_MSG_SIZE + 1
              ELSE U32Small(s.val)
    IN [g.msg EXCEPT !.size = sz, !.type = t.val, !.tag = g.val,
                     !.error = (sz < 7 \/ sz > size)]


(***************************************************************************)
(* Response cursor: the message under construction in tx_buffer.           *)
(* fields is the list of values written after the 7 reserved header bytes. *)
(***************************************************************************)
p9_msg_init_write(capacity, type, tag) ==
    [capacity |-> capacity, pos |-> 7, error |-> FALSE, size |-> 7,
     type |-> type, tag |-> tag, fields |-> <<>>]

WriteField(m, width, f) ==
    IF m.error \/ m.pos + width > m.capacity
    THEN [m EXCEPT !.error = TRUE]
    ELSE [m EXCEPT !.pos = @ + width, !.fields = Append(@, f)]

p9_write_u8(m, v) == WriteField(m, 1, [t |-> "u8", v |-> v])
p9_write_u16(m, v) == WriteField(m, 2, [t |-> "u16", v |-> v])
p9_write_u32(m, v) == WriteField(m, 4, [t |-> "u32", v |-> v])
p9_write_u64(m, v) == WriteField(m, 8, [t |-> "u64", v |-> v])
p9_write_string(m, s) == WriteField(m, 2 + Len(s), [t |-> "string", v |-> s])

p9_write_qid(m, qid) ==
    IF m.error THEN m
    ELSE p9_write_u64(p9_write_u32(p9_write_u8(m, qid.type), qid.version), qid.path)

(* p9_msg_finalize writing the tag with its two bytes exchanged *)
p9_msg_finalize_tag_swapped(m, old_hdr) ==
    IF m.error THEN old_hdr
    ELSE le32(m.pos) \o <<m.type % 256>> \o <<(m.tag \div 256) % 256, m.tag % 256>>

(* The header bytes p9_msg_finalize leaves at tx_buffer[0..6]: the new     *)
(* header, or what was there before when the cursor carries an error.      *)
p9_msg_finalize(m, old_hdr) ==
    IF m.error THEN old_hdr
    ELSE le32(m.pos) \o <<m.type % 256>> \o le16(m.tag)

send_error(resp, ename) == p9_write_string(resp, ename)

(***************************************************************************)
(* FID table (picocalc_9p.c).  Slots are 1..P9_MAX_FIDS_PER_CLIENT.        *)
(* A slot that is not in use is kept zeroed: the code leaves the old field *)
(* values behind in a freed slot, but reads them only under in_use and     *)
(* p9_fid_alloc zeroes the slot before reusing it.                         *)
(***************************************************************************)
Slots == 1..P9_MAX_FIDS_PER_CLIENT

ZeroQid == [type |-> 0, version |-> 0, path |-> 0]

ZeroFid == [in_use |-> FALSE, type |-> "NONE", fid |-> Fid(0), qid |-> ZeroQid,
            path |-> <<>>, file |-> [is_open |-> FALSE, dir_pos |-> 0], iounit |-> 0, mode |-> 0]

p9_fid_table_init == [fids |-> [i \in Slots |-> ZeroFid], next_qid_path |-> 1]

(* index of the slot holding fid_num, 0 for NULL *)
p9_fid_get(table, fid_num) ==
    LET hit == {i \in Slots : table.fids[i].in_use /\ table.fids[i].fid = fid_num}
    IN IF hit = {} THEN 0 ELSE CHOOSE i \in hit : \A j \in hit : i <= j

(* p9_fid_alloc without the search for a slot already holding fid_num *)
p9_fid_alloc_no_duplicate_check(table, fid_num) ==
    LET free == {i \in Slots : ~table.fids[i].in_use}
    IN IF free = {}
       THEN [slot |-> 0, table |-> table]
       ELSE LET s == CHOOSE i \in free : \A j \in free : i <= j
            IN [slot |-> s,
                table |-> [table EXCEPT !.fids[s] =
                              [ZeroFid EXCEPT !.in_use = TRUE, !.fid = fid_num]]]

(* [slot, table]: slot = 0 when the allocation fails *)
p9_fid_alloc(table, fid_num) ==
    LET free == {i \in Slots : ~table.fids[i].in_use}
    IN IF p9_fid_get(table, fid_num) # 0 \/ free = {}
       THEN [slot |-> 0, table |-> table]
       ELSE LET s == CHOOSE i \in free : \A j \in free : i <= j
            IN [slot |-> s,
                table |-> [table EXCEPT !.fids[s] =
                              [ZeroFid EXCEPT !.in_use = TRUE, !.fid = fid_num]]]

(* p9_fid_clone copying the kind and the path but not the QID *)
p9_fid_clone_without_qid(table, old_fid, new_fid) ==
    LET old == p9_fid_get(table, old_fid) IN
    IF old = 0 THEN [slot |-> 0, table |-> table]
    ELSE LET a == p9_fid_alloc(table, new_fid) IN
         IF a.slot = 0 THEN a
         ELSE [slot |-> a.slot,
               table |-> [a.table EXCEPT
                   !.fids[a.slot].type = table.fids[old].type,
                   !.fids[a.slot].path = table.fids[old].path]]

p9_fid_clone(table, old_fid, new_fid) ==
    LET old == p9_fid_get(table, old_fid) IN
    IF old = 0 THEN [slot |-> 0, table |-> table]
    ELSE LET a == p9_fid_alloc(table, new_fid) IN
         IF a.slot = 0 THEN a
         ELSE [slot |-> a.slot,
               table |-> [a.table EXCEPT
                   !.fids[a.slot].type = table.fids[old].type,
                   !.fids[a.slot].qid = table.fids[old].qid,
                   !.fids[a.slot].path = table.fids[old].path]]

(***************************************************************************)
(* Storage backend (external FAT32 driver) behind the fat32_sync_*         *)
(* wrappers.  be = [dirs, files, nopen]: the directories and files that    *)
(* exist (by absolute path) and the number of file objects the driver has  *)
(* opened and not yet closed.  io = TRUE: the medium fails during this     *)
(* request.                                                                *)
(***************************************************************************)
Root == <<ChSlash>>

Exists(be, path) == path \in be.dirs \/ path \in be.files

(* the parent directory of an absolute normalized path *)
RECURSIVE Parent(_)
Parent(path) ==
    IF Len(path) <= 1 THEN Root
    ELSE IF path[Len(path)] = ChSlash
         THEN (IF Len(path) = 2 THEN Root ELSE SubSeq(path, 1, Len(path) - 1))
         ELSE Parent(SubSeq(path, 1, Len(path) - 1)) 

Children(be, path) == {q \in be.dirs \cup be.files : q # path /\ Parent(q) = path}

fat32_sync_open(be, path, io) ==
    IF io THEN [err |-> "read failed", be |-> be, isdir |-> FALSE]
    ELSE IF ~Exists(be, path)
         THEN [err |-> "file not found", be |-> be, isdir |-> FALSE]
         ELSE [err |-> "OK", be |-> [be EXCEPT !.nopen = @ + 1],
               isdir |-> path \in be.dirs]

fat32_sync_close(be) == [be EXCEPT !.nopen = IF @ > 0 THEN @ - 1 ELSE 0]

fat32_sync_create(be, path, io, isdir) ==
    IF io THEN [err |-> "write failed", be |-> be]
    ELSE IF Exists(be, path) THEN [err |-> "file exists", be |-> be]
    ELSE IF Parent(path) \notin be.dirs THEN [err |-> "directory not found", be |-> be]
    ELSE [err |-> "OK",
          be |-> [be EXCEPT !.nopen = @ + 1,
                            !.dirs = IF isdir THEN @ \cup {path} ELSE @,
                            !.files = IF isdir THEN @ ELSE @ \cup {path}]]

fat32_sync_delete(be, path, io) ==
    IF io THEN [err |-> "write failed", be |-> be]
    ELSE IF ~Exists(be, path) \/ path = Root THEN [err |-> "file not found", be |-> be]
    ELSE IF path \in be.dirs /\ \E q \in be.dirs \cup be.files : q # path /\ Parent(q) = path
         THEN [err |-> "directory not empty", be |-> be]
    ELSE [err |-> "OK", be |-> [be EXCEPT !.dirs = @ \ {path}, !.files = @ \ {path}]]

fat32_sync_rename(be, old, new, io) ==
    IF io THEN [err |-> "write failed", be |-> be]
    ELSE IF ~Exists(be, old) \/ old = Root THEN [err |-> "file not found", be |-> be]
    ELSE IF Exists(be, new) THEN [err |-> "file exists", be |-> be]
    ELSE IF old \in be.dirs /\ \E q \in be.dirs \cup be.files : q # old /\ Parent(q) = old
         THEN [err |-> "directory not empty", be |-> be]
    ELSE [err |-> "OK",
          be |-> [be EXCEPT !.dirs = IF old \in @ THEN (@ \ {old}) \cup {new} ELSE @,
                            !.files = IF old \in @ THEN (@ \ {old}) \cup {new} ELSE @]]


(***************************************************************************)
(* Path utilities (picocalc_9p_fs.c).  A path is its sequence of           *)
(* characters; positions are 1-based, so the code's index i is i + 1 here. *)
(***************************************************************************)
RECURSIVE SkipSlashes(_, _)
SkipSlashes(path, p) ==
    IF p <= Len(path) /\ path[p] = ChSlash THEN SkipSlashes(path, p + 1) ELSE p

RECURSIVE ComponentEnd(_, _)
ComponentEnd(path, p) ==
    IF p <= Len(path) /\ path[p] # ChSlash THEN ComponentEnd(path, p + 1) ELSE p

(* the while loop of the ".." case: out is normalized[0..out_pos-1] *)
RECURSIVE DropToSlash(_)
DropToSlash(out) ==
    IF Len(out) > 1 /\ out[Len(out)] # ChSlash
    THEN DropToSlash(SubSeq(out, 1, Len(out) - 1))
    ELSE out

RECURSIVE NormalizeLoop(_, _, _, _)
NormalizeLoop(path, p, out, size) ==
    IF ~(p <= Len(path) /\ Len(out) < size - 1)
    THEN [ok |-> TRUE, path |-> out]
    ELSE LET start == SkipSlashes(path, p) IN
         IF start > Len(path)
         THEN [ok |-> TRUE, path |-> out]
         ELSE LET e == ComponentEnd(path, start)
                  comp == SubSeq(path, start, e - 1)
              IN IF comp = <<ChDot>>
                 THEN NormalizeLoop(path, e, out, size)
                 ELSE IF comp = <<ChDot, ChDot>>
                 THEN NormalizeLoop(path, e,
                          IF Len(out) > 1
                          THEN DropToSlash(SubSeq(out, 1, Len(out) - 1))
                          ELSE out,
                          size)
                 ELSE LET o1 == IF Len(out) > 1 THEN Append(out, ChSlash) ELSE out
                      IN IF Len(o1) + Len(comp) >= size
                         THEN [ok |-> FALSE, path |-> o1]
                         ELSE NormalizeLoop(path, e, o1 \o comp, size)

p9_normalize_path(path, size) == NormalizeLoop(path, 1, Root, size)

p9_join_path(base, name, size) ==
    IF Len(base) + Len(name) + 2 > size
    THEN [ok |-> FALSE, path |-> <<>>]
    ELSE LET sep == IF Len(base) > 0 /\ base[Len(base)] # ChSlash
                       /\ (name = <<>> \/ name[1] # ChSlash)
                    THEN <<ChSlash>> ELSE <<>>
         IN p9_normalize_path(base \o sep \o name, FAT32_MAX_PATH_LEN)

(***************************************************************************)
(* Filesystem operations (picocalc_9p_fs.c).  w = [c, be, nio]: the client *)
(* session, the backend, and the number of data calls (seek, read, write,  *)
(* directory read) the backend has served since the running p9_tcp_recv    *)
(* call began; used: the highest number of entries of the name and QID     *)
(* arrays of p9_handle_walk (entries 0 .. used - 1) that a Twalk has used  *)
(* since then.  nio and used are history, no code reads them.              *)
(***************************************************************************)
World(c, be) == [c |-> c, be |-> be, nio |-> 0, used |-> 0]

p9_fid_next_qid_path(table) ==
    [val |-> table.next_qid_path,
     table |-> [table EXCEPT !.next_qid_path = @ + 1]]

(* [walked, qids, w]: the loop of p9_walk_path from element i + 1 on *)
RECURSIVE WalkLoop(_, _, _, _, _, _)
WalkLoop(w, current_path, names, i, qids, io) ==
    IF i >= Len(names)
    THEN [walked |-> Len(names), qids |-> qids, w |-> w]
    ELSE LET j == p9_join_path(current_path, names[i + 1], FAT32_MAX_PATH_LEN) IN
         IF ~j.ok
         THEN [walked |-> i, qids |-> qids, w |-> w]
         ELSE LET o == fat32_sync_open(w.be, j.path, io) IN
              IF o.err # "OK"
              THEN [walked |-> i, qids |-> qids, w |-> w]
              ELSE LET n == p9_fid_next_qid_path(w.c.fid_table)
                       q == [type |-> IF o.isdir THEN P9_QTDIR ELSE P9_QTFILE,
                             version |-> 0, path |-> n.val]
                   IN WalkLoop([w EXCEPT !.c.fid_table = n.table,
                                         !.be = fat32_sync_close(o.be)],
                               j.path, names, i + 1, Append(qids, q), io)

(* p9_walk_path returning -1 when an element fails, as its header comment  *)
(* describes it                                                            *)
p9_walk_path_minus_one(w, base_slot, names, io) ==
    LET r == WalkLoop(w, w.c.fid_table.fids[base_slot].path, names, 0, <<>>, io)
    IN IF r.walked < Len(names) THEN [r EXCEPT !.walked = 0 - 1] ELSE r

p9_walk_path(w, base_slot, names, io) ==
    WalkLoop(w, w.c.fid_table.fids[base_slot].path, names, 0, <<>>, io)

(* p9_open_file leaving the handle marked open when the backend refuses *)
p9_open_file_open_on_error(w, s, mode, io) ==
    LET o == fat32_sync_open(w.be, w.c.fid_table.fids[s].path, io) IN
    IF o.err # "OK"
    THEN [err |-> o.err,
          w |-> [w EXCEPT !.c.fid_table.fids[s].file.is_open = TRUE]]
    ELSE [err |-> "OK",
          w |-> [w EXCEPT !.c.fid_table.fids[s].file =
                              [is_open |-> TRUE, dir_pos |-> 0],
                          !.c.fid_table.fids[s].mode = mode,
                          !.c.fid_table.fids[s].iounit = IOUNIT,
                          !.be = o.be]]

(* [err, w]: p9_open_file on the FID in slot s *)
p9_open_file(w, s, mode, io) ==
    LET o == fat32_sync_open(w.be, w.c.fid_table.fids[s].path, io) IN
    IF o.err # "OK"
    THEN [err |-> o.err, w |-> w]
    ELSE [err |-> "OK",
          w |-> [w EXCEPT !.c.fid_table.fids[s].file =
                              [is_open |-> TRUE, dir_pos |-> 0],
                          !.c.fid_table.fids[s].mode = mode,
                          !.c.fid_table.fids[s].iounit = IOUNIT,
                          !.be = o.be]]

(* [err, w]: p9_create_file; perm is the 32-bit tuple read from the wire.  *)
(* 0040000 (octal) is bit 14.                                              *)
p9_create_file(w, s, name, perm, mode, io) ==
    LET j == p9_join_path(w.c.fid_table.fids[s].path, name, FAT32_MAX_PATH_LEN) IN
    IF ~j.ok
    THEN [err |-> "invalid path", w |-> w]
    ELSE LET isdir == U32Bit(perm, 14)
             r == fat32_sync_create(w.be, j.path, io, isdir)
             c1 == [w.c EXCEPT !.fid_table.fids[s].type =
                                   IF isdir THEN "DIR" ELSE "FILE"]
         IN IF r.err # "OK"
            THEN [err |-> r.err, w |-> [w EXCEPT !.c = c1, !.be = r.be]]
            ELSE [err |-> "OK",
                  w |-> [w EXCEPT !.c = [c1 EXCEPT !.fid_table.fids[s].path = j.path,
                                                   !.fid_table.fids[s].file =
                                                       [is_open |-> TRUE, dir_pos |-> 0],
                                                   !.fid_table.fids[s].mode = mode,
                                                   !.fid_table.fids[s].iounit = IOUNIT],
                                  !.be = r.be]]


(* a 32-bit count as a number; anything of 2^24 or more is kept as 2^24,   *)
(* which exceeds every buffer of the program                               *)
CountVal(v) == IF v[4] > 0 THEN 16777216 ELSE LEVal(SubSeq(v, 1, 3))

(* length of every regular file of the backend: file contents are not      *)
(* tracked, a read returns what a file of this length holds                *)
FileLen == 5

(* [err, bytes_read, w]: p9_read_file.  offset is the 64-bit tuple, of     *)
(* which fat32_sync_seek(file, uint32_t position) receives the low 32 bits *)
p9_read_file(w, s, offset, count, io, junk) ==
    LET f == w.c.fid_table.fids[s] IN
    IF f.type = "DIR"
    THEN (* the cursor msg is set up by p9_msg_init_write(&msg, buffer,    *)
         (* count, 0, 0): pos = 7 and size = 7, so p9_encode_dirent finds  *)
         (* no room for any entry: the first entry fat32_sync_dir_read     *)
         (* returns consumes a QID path and ends the loop.  With count < 7 *)
         (* p9_msg_init_write returns early and msg.pos is uninitialised:  *)
         (* bytes_read is then the value junk chosen by the environment.   *)
         IF count < 7
         THEN [err |-> "OK", bytes_read |-> junk, w |-> w]
         ELSE IF count > 7 /\ ~io /\ f.file.dir_pos < Cardinality(Children(w.be, f.path))
         THEN LET n == p9_fid_next_qid_path(w.c.fid_table)
              IN [err |-> "OK", bytes_read |-> 7,
                  w |-> [w EXCEPT !.c.fid_table =
                                      [n.table EXCEPT !.fids[s].file.dir_pos = @ + 1],
                                  !.nio = @ + 1]]
         ELSE [err |-> "OK", bytes_read |-> 7,
               w |-> [w EXCEPT !.nio = IF count > 7 THEN @ + 1 ELSE @]]
    ELSE LET pos == SubSeq(offset, 1, 4) IN
         IF io THEN [err |-> "read failed", bytes_read |-> 0,
                     w |-> [w EXCEPT !.nio = @ + 1]]
         ELSE IF U32Gt(pos, FileLen)
              THEN [err |-> "invalid position", bytes_read |-> 0,
                    w |-> [w EXCEPT !.nio = @ + 1]]
              ELSE LET avail == FileLen - U32Small(pos)
                   IN [err |-> "OK",
                       bytes_read |-> IF count < avail THEN count ELSE avail,
                       w |-> [w EXCEPT !.nio = @ + 2]]

(* [err, bytes_written, w]: fat32_sync_seek, then fat32_sync_write *)
p9_write_file(w, s, offset, count, io) ==
    IF w.c.fid_table.fids[s].type = "DIR"
    THEN [err |-> "not a file", bytes_written |-> 0, w |-> w]
    ELSE IF io THEN [err |-> "write failed", bytes_written |-> 0,
                     w |-> [w EXCEPT !.nio = @ + 1]]
         ELSE [err |-> "OK", bytes_written |-> count,
               w |-> [w EXCEPT !.nio = @ + 2]]

p9_remove_file(be, path, io) == fat32_sync_delete(be, path, io)

(* the characters after the last '/' of path *)
RECURSIVE BaseName(_)
BaseName(path) ==
    IF path = <<>> \/ path[Len(path)] = ChSlash THEN <<>>
    ELSE Append(BaseName(SubSeq(path, 1, Len(path) - 1)), path[Len(path)])

(* the characters up to and including the last '/' of path *)
RECURSIVE DirName(_)
DirName(path) ==
    IF path = <<>> \/ path[Len(path)] = ChSlash THEN path
    ELSE DirName(SubSeq(path, 1, Len(path) - 1))

(* [err, stat, w]: p9_stat_file *)
p9_stat_file(w, path, io) ==
    LET o == fat32_sync_open(w.be, path, io) IN
    IF o.err # "OK"
    THEN [err |-> o.err, stat |-> <<>>, w |-> w]
    ELSE LET n == p9_fid_next_qid_path(w.c.fid_table)
         IN [err |-> "OK",
             stat |-> [qid |-> [type |-> IF o.isdir THEN P9_QTDIR ELSE P9_QTFILE,
                                version |-> 0, path |-> n.val],
                       name |-> BaseName(path)],
             w |-> [w EXCEPT !.c.fid_table = n.table,
                             !.be = fat32_sync_close(o.be)]]

(* 53 bytes of fixed fields, five string length prefixes, and the strings  *)
(* name, "picocalc" three times, and the empty extension                   *)
p9_stat_size(stat) == 53 + 2 + Len(stat.name) + 3 * (2 + 8) + 2

p9_write_stat(m, stat) == WriteField(m, p9_stat_size(stat), [t |-> "stat", v |-> stat])

(* the cursor after reading n strings *)
RECURSIVE ReadStrings(_, _)
ReadStrings(m, n) ==
    IF n = 0 THEN m ELSE ReadStrings(p9_read_string(m).msg, n - 1)

(* [ok, name, msg]: p9_read_stat; of the record only the name is used.     *)
(* The cursor's error flag is sticky and every read that fails sets it, so *)
(* the function returns true exactly when the last read leaves it clear.   *)
(* StatFixed: size, type, dev, qid, mode, atime, mtime, length (2 + 39     *)
(* bytes); StatStrings: name, then uid, gid, muid, extension and the three *)
(* numeric ids (12 bytes).                                                 *)
StatResult(name, m) == [ok |-> ~m.error, name |-> name, msg |-> m]

StatStrings(name) ==
    StatResult(name.val, ReadN(ReadStrings(name.msg, 4), 12, <<>>).msg)

StatFixed(m) == ReadN(p9_read_u16(m).msg, 39, <<>>).msg

p9_read_stat(m) ==
    IF m.error THEN [ok |-> FALSE, name |-> <<>>, msg |-> m]
    ELSE StatStrings(p9_read_string(StatFixed(m)))


(***************************************************************************)
(* Message handlers (picocalc_9p_handlers.c).  Each takes the world w, the *)
(* request cursor positioned after the header, the response cursor and the *)
(* environment's choices env = [io, tcp_ok, junk], and returns             *)
(* [w, resp, failed]; failed records that the handler called send_error.   *)
(***************************************************************************)
Done(w, resp) == [w |-> w, resp |-> resp, failed |-> FALSE]
Error(w, resp, ename) == [w |-> w, resp |-> send_error(resp, ename), failed |-> TRUE]

StrVersion9P2000u == <<57, 80, 50, 48, 48, 48, 46, 117>>

p9_handle_version(w, req, resp, env) ==
    LET m == p9_read_u32(req)
        v == p9_read_string(m.msg)
    IN IF ~v.ok THEN Error(w, resp, "invalid version string")
       ELSE LET msize == IF U32Gt(m.val, P9_MAX_MSG_SIZE) THEN P9_MAX_MSG_SIZE
                         ELSE U32Small(m.val)
                known == v.val = StrVersion9P2000u
                c1 == [w.c EXCEPT !.max_msg_size = msize,
                                  !.version = IF known THEN "9P2000.u" ELSE "unknown",
                                  !.state = IF known THEN "VERSION_NEGOTIATED" ELSE @]
            IN Done([w EXCEPT !.c = c1],
                    p9_write_string(p9_write_u32(resp, msize), c1.version))

p9_handle_auth(w, req, resp, env) ==
    Error(w, resp, "authentication not required")

p9_handle_attach(w, req, resp, env) ==
    LET fid == p9_read_u32(req)
        afid == p9_read_u32(fid.msg)
        uname == p9_read_string(afid.msg)
        aname == p9_read_string(uname.msg)
    IN IF ~uname.ok \/ ~aname.ok THEN Error(w, resp, "invalid attach parameters")
       ELSE LET a == p9_fid_alloc(w.c.fid_table, fid.val) IN
            IF a.slot = 0 THEN Error(w, resp, "fid already in use")
            ELSE LET qid == [type |-> P9_QTDIR, version |-> 0, path |-> 1]
                     t1 == [a.table EXCEPT !.fids[a.slot].type = "DIR",
                                           !.fids[a.slot].path = Root,
                                           !.fids[a.slot].qid = qid]
                 IN Done([w EXCEPT !.c.fid_table = t1, !.c.state = "ATTACHED"],
                         p9_write_qid(resp, qid))

(* [ok, names, msg]: the loop reading at most P9_MAX_WALK_ELEMENTS names *)
RECURSIVE ReadNames(_, _, _)
ReadNames(m, n, names) ==
    IF Len(names) >= n \/ Len(names) >= P9_MAX_WALK_ELEMENTS
    THEN [ok |-> TRUE, names |-> names, msg |-> m]
    ELSE LET r == p9_read_string(m) IN
         IF ~r.ok THEN [ok |-> FALSE, names |-> names, msg |-> r.msg]
         ELSE ReadNames(r.msg, n, Append(names, r.val))

RECURSIVE WriteQids(_, _)
WriteQids(m, qids) ==
    IF qids = <<>> THEN m ELSE WriteQids(p9_write_qid(m, Head(qids)), Tail(qids))

(* the final path of the new FID: the source path with each name appended *)
RECURSIVE FinalPath(_, _)
FinalPath(path, names) ==
    IF names = <<>> THEN path
    ELSE LET sep == IF Len(path) > 0 /\ path[Len(path)] # ChSlash
                    THEN <<ChSlash>> ELSE <<>>
             room == (FAT32_MAX_PATH_LEN - 1) - Len(path)
             p1 == path \o SubSeq(sep, 1, IF room < Len(sep) THEN room ELSE Len(sep))
             room1 == (FAT32_MAX_PATH_LEN - 1) - Len(p1)
             nm == Head(names)
         IN FinalPath(p1 \o SubSeq(nm, 1, IF room1 < Len(nm) THEN room1 ELSE Len(nm)),
                      Tail(names))

(* the array names as p9_walk_path and the loops over nwname see it: the   *)
(* entries the read loop filled and, from P9_MAX_WALK_ELEMENTS on, what    *)
(* lies behind the array                                                   *)
NamesArray(names, nwname, stray) ==
    names \o [k \in 1..(nwname - Len(names)) |-> stray]

(* the handler has used the entries 0 .. n - 1 of its arrays *)
Used(w, n) == [w EXCEPT !.used = IF n > @ THEN n ELSE @]

p9_handle_walk(w, req, resp, env) ==
    LET fid == p9_read_u32(req)
        newfid == p9_read_u32(fid.msg)
        nwname == p9_read_u16(newfid.msg)
        src == p9_fid_get(w.c.fid_table, fid.val)
    IN IF src = 0 THEN Error(w, resp, "unknown fid")
       ELSE IF nwname.val = 0
       THEN LET cl == p9_fid_clone(w.c.fid_table, fid.val, newfid.val) IN
            IF cl.slot = 0 THEN Error(w, resp, "cannot clone fid")
            ELSE Done([w EXCEPT !.c.fid_table = cl.table], p9_write_u16(resp, 0))
       ELSE LET rn == ReadNames(nwname.msg, nwname.val, <<>>) IN
            IF ~rn.ok THEN Error(Used(w, Len(rn.names) + 1), resp, "invalid path component")
            ELSE LET names == NamesArray(rn.names, nwname.val, env.stray)
                     wk == p9_walk_path(Used(w, nwname.val), src, names, env.io)
                 IN
                 IF wk.walked < 0 THEN Error(wk.w, resp, "walk failed")
                 ELSE IF wk.walked = nwname.val
                 THEN LET cl == p9_fid_clone(wk.w.c.fid_table, fid.val, newfid.val) IN
                      IF cl.slot = 0 THEN Error(wk.w, resp, "cannot create new fid")
                      ELSE LET q == wk.qids[wk.walked]
                               t1 == [cl.table EXCEPT
                                   !.fids[cl.slot].path =
                                       FinalPath(cl.table.fids[src].path, names),
                                   !.fids[cl.slot].qid = q,
                                   !.fids[cl.slot].type =
                                       IF q.type >= P9_QTDIR THEN "DIR" ELSE "FILE"]
                           IN Done([wk.w EXCEPT !.c.fid_table = t1],
                                   WriteQids(p9_write_u16(resp, wk.walked), wk.qids))
                 ELSE Done(wk.w, WriteQids(p9_write_u16(resp, wk.walked), wk.qids))


p9_handle_open(w, req, resp, env) ==
    LET fid == p9_read_u32(req)
        mode == p9_read_u8(fid.msg)
        f == p9_fid_get(w.c.fid_table, fid.val)
    IN IF f = 0 THEN Error(w, resp, "unknown fid")
       ELSE LET o == p9_open_file(w, f, mode.val, env.io) IN
            IF o.err # "OK" THEN Error(o.w, resp, o.err)
            ELSE Done(o.w, p9_write_u32(p9_write_qid(resp, o.w.c.fid_table.fids[f].qid),
                                        o.w.c.fid_table.fids[f].iounit))

(* the handler reads fid, perm, mode and then the name, in this order *)
(* the reads of p9_handle_create, in the order it makes them *)
CreateFields(req) ==
    LET fid == p9_read_u32(req)
        perm == p9_read_u32(fid.msg)
        mode == p9_read_u8(perm.msg)
        name == p9_read_string(mode.msg)
    IN [fid |-> fid, perm |-> perm, mode |-> mode, name |-> name]

p9_handle_create(w, req, resp, env) ==
    LET rd == CreateFields(req)
        fid == rd.fid
        perm == rd.perm
        mode == rd.mode
        name == rd.name
        d == p9_fid_get(w.c.fid_table, fid.val)
    IN IF ~name.ok THEN Error(w, resp, "invalid name")
       ELSE IF d = 0 THEN Error(w, resp, "unknown fid")
       ELSE IF w.c.fid_table.fids[d].type # "DIR" THEN Error(w, resp, "not a directory")
       ELSE LET cr == p9_create_file(w, d, name.val, perm.val, mode.val, env.io) IN
            IF cr.err # "OK" THEN Error(cr.w, resp, cr.err)
            ELSE LET n == p9_fid_next_qid_path(cr.w.c.fid_table)
                     qid == [type |-> IF U32Bit(perm.val, 14) THEN P9_QTDIR ELSE P9_QTFILE,
                             version |-> 0, path |-> n.val]
                     t1 == [n.table EXCEPT !.fids[d].qid = qid]
                 IN Done([cr.w EXCEPT !.c.fid_table = t1],
                         p9_write_u32(p9_write_qid(resp, qid), t1.fids[d].iounit))

(* malloc(count): the heap of the target cannot hold more than a message   *)
(* buffer's worth                                                          *)
MallocOk(count) == count <= P9_MAX_MSG_SIZE

(* p9_handle_read without the test of file.is_open *)
p9_handle_read_without_open_check(w, req, resp, env) ==
    LET fid == p9_read_u32(req)
        offset == p9_read_u64(fid.msg)
        cnt == p9_read_u32(offset.msg)
        f == p9_fid_get(w.c.fid_table, fid.val)
    IN IF f = 0 THEN Error(w, resp, "unknown fid")
       ELSE LET wraps == w.c.max_msg_size < 11
                max_count == w.c.max_msg_size - 11
                count == IF ~wraps /\ CountVal(cnt.val) > max_count
                         THEN max_count ELSE CountVal(cnt.val)
            IN IF ~MallocOk(count) THEN Error(w, resp, "out of memory")
               ELSE LET r == p9_read_file(w, f, offset.val, count, env.io, env.junk) IN
                    IF r.err # "OK" /\ r.err # "invalid position"
                    THEN Error(r.w, resp, r.err)
                    ELSE LET r1 == p9_write_u32(resp, r.bytes_read)
                         IN Done(r.w,
                                 IF r.bytes_read > 0
                                 THEN [r1 EXCEPT !.pos = @ + r.bytes_read,
                                                 !.fields = Append(@,
                                                     [t |-> "data", v |-> r.bytes_read])]
                                 ELSE r1)

p9_handle_read(w, req, resp, env) ==
    LET fid == p9_read_u32(req)
        offset == p9_read_u64(fid.msg)
        cnt == p9_read_u32(offset.msg)
        f == p9_fid_get(w.c.fid_table, fid.val)
    IN IF f = 0 THEN Error(w, resp, "unknown fid")
       ELSE IF ~w.c.fid_table.fids[f].file.is_open THEN Error(w, resp, "file not open")
       ELSE LET (* max_msg_size - 11 in uint32_t: wraps below 11 *)
                wraps == w.c.max_msg_size < 11
                max_count == w.c.max_msg_size - 11
                count == IF ~wraps /\ CountVal(cnt.val) > max_count
                         THEN max_count ELSE CountVal(cnt.val)
            IN IF ~MallocOk(count) THEN Error(w, resp, "out of memory")
               ELSE LET r == p9_read_file(w, f, offset.val, count, env.io, env.junk) IN
                    IF r.err # "OK" /\ r.err # "invalid position"
                    THEN Error(r.w, resp, r.err)
                    ELSE LET r1 == p9_write_u32(resp, r.bytes_read)
                         IN Done(r.w,
                                 IF r.bytes_read > 0
                                 THEN [r1 EXCEPT !.pos = @ + r.bytes_read,
                                                 !.fields = Append(@,
                                                     [t |-> "data", v |-> r.bytes_read])]
                                 ELSE r1)

p9_handle_write(w, req, resp, env) ==
    LET fid == p9_read_u32(req)
        offset == p9_read_u64(fid.msg)
        cnt == p9_read_u32(offset.msg)
        f == p9_fid_get(w.c.fid_table, fid.val)
    IN IF f = 0 THEN Error(w, resp, "unknown fid")
       ELSE IF ~w.c.fid_table.fids[f].file.is_open THEN Error(w, resp, "file not open")
       ELSE IF w.c.fid_table.fids[f].type = "DIR"
       THEN Error(w, resp, "cannot write to directory")
       ELSE LET r == p9_write_file(w, f, offset.val, CountVal(cnt.val), env.io) IN
            IF r.err # "OK" THEN Error(r.w, resp, r.err)
            ELSE Done(r.w, p9_write_u32(resp, r.bytes_written))

(* p9_fid_free marking the slot free without closing its file *)
p9_fid_free_no_close(w, fid_num) ==
    LET f == p9_fid_get(w.c.fid_table, fid_num) IN
    IF f = 0 THEN w
    ELSE [w EXCEPT !.c.fid_table.fids[f] = ZeroFid]

(* p9_fid_free: close the file if open, mark the slot free *)
p9_fid_free(w, fid_num) ==
    LET f == p9_fid_get(w.c.fid_table, fid_num) IN
    IF f = 0 THEN w
    ELSE [w EXCEPT !.c.fid_table.fids[f] = ZeroFid,
                   !.be = IF w.c.fid_table.fids[f].file.is_open
                          THEN fat32_sync_close(w.be) ELSE w.be]

p9_handle_clunk(w, req, resp, env) ==
    LET fid == p9_read_u32(req)
    IN Done(p9_fid_free(w, fid.val), resp)

p9_handle_remove(w, req, resp, env) ==
    LET fid == p9_read_u32(req)
        f == p9_fid_get(w.c.fid_table, fid.val)
    IN IF f = 0 THEN Error(w, resp, "unknown fid")
       ELSE LET r == p9_remove_file(w.be, w.c.fid_table.fids[f].path, env.io)
                w1 == p9_fid_free([w EXCEPT !.be = r.be], fid.val)
            IN IF r.err # "OK" THEN Error(w1, resp, r.err)
               ELSE Done(w1, resp)

p9_handle_stat(w, req, resp, env) ==
    LET fid == p9_read_u32(req)
        f == p9_fid_get(w.c.fid_table, fid.val)
    IN IF f = 0 THEN Error(w, resp, "unknown fid")
       ELSE LET st == p9_stat_file(w, w.c.fid_table.fids[f].path, env.io) IN
            IF st.err # "OK" THEN Error(st.w, resp, st.err)
            ELSE Done(st.w, p9_write_stat(p9_write_u16(resp, p9_stat_size(st.stat) + 2),
                                          st.stat))

p9_handle_wstat(w, req, resp, env) ==
    LET fid == p9_read_u32(req)
        stat_size == p9_read_u16(fid.msg)
        st == p9_read_stat(stat_size.msg)
        f == p9_fid_get(w.c.fid_table, fid.val)
    IN IF ~st.ok THEN Error(w, resp, "invalid stat structure")
       ELSE IF f = 0 THEN Error(w, resp, "unknown fid")
       ELSE IF Len(st.name) > 0
       THEN LET old == w.c.fid_table.fids[f].path
                full == DirName(old) \o st.name
                new_path == SubSeq(full, 1, IF Len(full) < FAT32_MAX_PATH_LEN - 1
                                            THEN Len(full) ELSE FAT32_MAX_PATH_LEN - 1)
                r == fat32_sync_rename(w.be, old, new_path, env.io)
            IN IF r.err # "OK" THEN Error(w, resp, r.err)
               ELSE Done([w EXCEPT !.c.fid_table.fids[f].path = new_path,
                                   !.be = r.be], resp)
       ELSE Done(w, resp)

p9_handle_flush(w, req, resp, env) == Done(w, resp)


(***************************************************************************)
(* Dispatch (picocalc_9p.c)                                                *)
(***************************************************************************)
ValidTypes == {Tversion, Tauth, Tattach, Twalk, Topen, Tcreate, Tread, Twrite,
               Tclunk, Tremove, Tstat, Twstat, Tflush}

Dispatch(type, w, req, resp, env) ==
    CASE type = Tversion -> p9_handle_version(w, req, resp, env)
      [] type = Tauth    -> p9_handle_auth(w, req, resp, env)
      [] type = Tattach  -> p9_handle_attach(w, req, resp, env)
      [] type = Twalk    -> p9_handle_walk(w, req, resp, env)
      [] type = Topen    -> p9_handle_open(w, req, resp, env)
      [] type = Tcreate  -> p9_handle_create(w, req, resp, env)
      [] type = Tread    -> p9_handle_read(w, req, resp, env)
      [] type = Twrite   -> p9_handle_write(w, req, resp, env)
      [] type = Tclunk   -> p9_handle_clunk(w, req, resp, env)
      [] type = Tremove  -> p9_handle_remove(w, req, resp, env)
      [] type = Tstat    -> p9_handle_stat(w, req, resp, env)
      [] type = Twstat   -> p9_handle_wstat(w, req, resp, env)
      [] type = Tflush   -> p9_handle_flush(w, req, resp, env)

(* what the session looked like before or after one request *)
Snapshot(w) == [active |-> w.c.active, state |-> w.c.state,
                fids |-> w.c.fid_table.fids,
                next_qid_path |-> w.c.fid_table.next_qid_path,
                max_msg_size |-> w.c.max_msg_size, nopen |-> w.be.nopen,
                dirs |-> w.be.dirs, files |-> w.be.files, nio |-> w.nio,
                used |-> w.used]

(* the bytes handed to tcp_write: header, typed payload, total length *)
Wire(hdr, resp) == [hdr |-> hdr, fields |-> resp.fields, len |-> resp.pos]

(* p9_send_error: Rerror with the request's tag, tcp_write unchecked *)
SendError(w, resp, hdr, env) ==
    [w |-> [w EXCEPT !.c.tx_hdr = hdr],
     resp |-> Wire(hdr, resp),
     written |-> w.c.pcb /\ resp.pos > 0 /\ env.tcp_ok]

FinalizeError(w, resp, env) == SendError(w, resp, p9_msg_finalize(resp, w.c.tx_hdr), env)

p9_send_error(w, tag, ename, env) ==
    FinalizeError(w, p9_write_string(p9_msg_init_write(P9_MAX_MSG_SIZE, Rerror, tag),
                                     ename), env)

(* the record of one exchange kept for the properties: the request, the    *)
(* environment, the reply handed to tcp_write and whether it was accepted, *)
(* and the session before (w) and after (w1) the request                   *)
Entry(w, req, env, valid_type, failed, resp, written, w1) ==
    [type |-> req.type, tag |-> req.tag, size |-> req.size,
     msg |-> SubSeq(w.c.rx_buffer, 1, req.size), env |-> env,
     valid_type |-> valid_type, failed |-> failed,
     resp |-> resp, written |-> written,
     pre |-> Snapshot(w), post |-> Snapshot(w1)]

(* the default branch of the first switch: e is what p9_send_error did *)
UnknownType(w, req, env, e) ==
    [w |-> e.w,
     entry |-> Entry(w, req, env, FALSE, FALSE, e.resp, e.written, e.w)]

(* after the handler returned h: p9_msg_finalize wrote hdr, then tcp_write *)
Send(w, req, env, h, hdr) ==
    [w |-> [h.w EXCEPT !.c.tx_hdr = hdr],
     entry |-> Entry(w, req, env, TRUE, h.failed, Wire(hdr, h.resp),
                     h.w.c.pcb /\ h.resp.pos > 0 /\ env.tcp_ok,
                     [h.w EXCEPT !.c.tx_hdr = hdr])]

Finalize(w, req, env, h) ==
    Send(w, req, env, h, p9_msg_finalize(h.resp, h.w.c.tx_hdr))

(* req is the request cursor after p9_msg_init_read *)
ProcessRequest(w, req, env) ==
    IF req.type \notin ValidTypes
    THEN UnknownType(w, req, env,
                     p9_send_error(w, req.tag, "unknown message type", env))
    ELSE Finalize(w, req, env,
                  Dispatch(req.type, w, req,
                           p9_msg_init_write(P9_MAX_MSG_SIZE, req.type + 1, req.tag),
                           env))

(* [w, entry]: one request taken from the front of rx_buffer *)
p9_process_message(w, env) ==
    ProcessRequest(w, p9_msg_init_read(w.c.rx_buffer, Len(w.c.rx_buffer)), env)

(***************************************************************************)
(* Connection life cycle and the receive callback (picocalc_9p.c)          *)
(***************************************************************************)
(* p9_fid_free_all: every open file of a live FID is closed *)
p9_fid_free_all(w) ==
    LET nclose == Cardinality({i \in Slots : w.c.fid_table.fids[i].in_use
                                             /\ w.c.fid_table.fids[i].file.is_open})
    IN [w EXCEPT !.c.fid_table.fids = [i \in Slots |-> ZeroFid],
                 !.be.nopen = IF @ >= nclose THEN @ - nclose ELSE 0]

(* a client slot cleared with memset, not active *)
IdleClient ==
    [active |-> FALSE, state |-> "DISCONNECTED", pcb |-> FALSE,
     max_msg_size |-> 0, version |-> "",
     fid_table |-> p9_fid_table_init, rx_buffer |-> <<>>,
     tx_hdr |-> <<0, 0, 0, 0, 0, 0, 0>>]

(* the session's part of p9_client_close (the counter of g_server is      *)
(* ClientClosed's): the other fields keep the session's last values        *)
p9_client_close(w) ==
    IF ~w.c.active THEN w
    ELSE LET w1 == p9_fid_free_all(w)
         IN [w1 EXCEPT !.c.pcb = FALSE, !.c.active = FALSE]

(* Where one session is followed on its own, a closed slot is kept         *)
(* cleared: the code reads none of the values left behind in it before     *)
(* p9_tcp_accept clears the slot with memset.                              *)
Cleared(c) == IF c.active THEN c ELSE IdleClient

(* header size field of the message at the front of rx_buffer; sizes above *)
(* the limit are all reported as the limit + 1                             *)
MsgSize(buf) ==
    LET v == SubSeq(buf, 1, 4)
    IN IF U32Gt(v, P9_MAX_MSG_SIZE) THEN P9_MAX_MSG_SIZE + 1 ELSE U32Small(v)

(* how the while loop of p9_tcp_recv ended: the verdict, the number of      *)
(* bytes then buffered, the header size (0 with fewer than 4 bytes) and    *)
(* the session's max_msg_size                                              *)
LoopExit(verdict, w, msg_size) ==
    [verdict |-> verdict, buffered |-> Len(w.c.rx_buffer), size |-> msg_size,
     max_msg_size |-> w.c.max_msg_size]

(* the while loop of p9_tcp_recv: [w, log, exit] *)
RECURSIVE RecvLoop(_, _, _)

(* r is what p9_process_message returned: the message is removed from the  *)
(* buffer and the loop goes on                                             *)
Consume(r, msg_size, log, envs) ==
    RecvLoop([r.w EXCEPT !.c.rx_buffer =
                  SubSeq(r.w.c.rx_buffer, msg_size + 1, Len(r.w.c.rx_buffer))],
             Append(log, r.entry), envs)

Frame(w, log, envs, msg_size) ==
    IF msg_size > P9_MAX_MSG_SIZE \/ msg_size < 7
    THEN [w |-> p9_client_close(w), log |-> log,
          exit |-> LoopExit("Malformed", w, msg_size)]
    ELSE IF Len(w.c.rx_buffer) < msg_size
    THEN [w |-> w, log |-> log, exit |-> LoopExit("NeedMore", w, msg_size)]
    ELSE Consume(p9_process_message(w, envs[Len(log) + 1]), msg_size, log, envs)

RecvLoop(w, log, envs) ==
    IF Len(w.c.rx_buffer) < 4
    THEN [w |-> w, log |-> log, exit |-> LoopExit("NeedMore", w, 0)]
    ELSE Frame(w, log, envs, MsgSize(w.c.rx_buffer))

(* the copy loop: at most P9_MAX_MSG_SIZE bytes are kept *)
CopyIn(buf, seg) ==
    LET room == P9_MAX_MSG_SIZE - Len(buf)
    IN buf \o SubSeq(seg, 1, IF Len(seg) < room THEN Len(seg) ELSE room)

FreshClient ==
    [active |-> TRUE, state |-> "CONNECTED", pcb |-> TRUE,
     max_msg_size |-> P9_MAX_MSG_SIZE, version |-> "",
     fid_table |-> p9_fid_table_init, rx_buffer |-> <<>>,
     tx_hdr |-> <<0, 0, 0, 0, 0, 0, 0>>]


(***************************************************************************)
(* The peer: requests as a 9P2000.u client puts them on the wire           *)
(***************************************************************************)
Str(bytes) == le16(Len(bytes)) \o bytes
Msg(type, tag, payload) == le32(7 + Len(payload)) \o <<type>> \o le16(tag) \o payload

StrVersion9P2000 == <<57, 80, 50, 48, 48, 48>>
NameA == <<97>>
NameB == <<98>>
PermFile == <<164, 1, 0, 0>>      \* 0644
PermDMDIR == <<237, 1, 0, 128>>   \* P9_DMDIR | 0755
PermOctalDir == <<237, 65, 0, 0>> \* 0040755
Offset0 == <<0, 0, 0, 0, 0, 0, 0, 0>>

(* a stat record as Twstat carries it: only the name differs from the      *)
(* "don't touch" values                                                    *)
StatRecord(name) ==
    LET body == [i \in 1..39 |-> 255] \o Str(name) \o Str(<<>>) \o Str(<<>>)
                \o Str(<<>>) \o Str(<<>>) \o [i \in 1..12 |-> 255]
    IN le16(Len(body)) \o body

(* tags: NOTAG on Tversion, as clients send it, and 0x0102 elsewhere *)
NOTAG == 65535
TagOf(type) == IF type = Tversion THEN NOTAG ELSE 258

FidNums == {Fid(0), Fid(1), Fid(2)}
SrcFids == {Fid(0), Fid(1)}
NewFids == {Fid(1), Fid(2)}
NameDot == <<ChDot>>
NameDotDot == <<ChDot, ChDot>>
WalkNames == {<<>>, <<NameA>>, <<NameB>>, <<NameA, NameB>>, <<NameA, NameA>>,
              <<NameDot>>, <<NameDotDot>>}

(* n elements ".", each resolving to the directory it is looked up in *)
Dots(n) == [k \in 1..n |-> NameDot]

(* what an entry past the end of the names array may point to: the empty   *)
(* string, a name that exists and one that does not                        *)
Strays == {<<>>, NameA, NameB}

RECURSIVE Names(_)
Names(ns) == IF ns = <<>> THEN <<>> ELSE Str(Head(ns)) \o Names(Tail(ns))

Payloads ==
    {<<Tversion, le32(8) \o Str(StrVersion9P2000u)>>,
     <<Tversion, le32(19) \o Str(StrVersion9P2000u)>>,
     <<Tversion, le32(65536) \o Str(StrVersion9P2000u)>>,
     <<Tversion, le32(65536) \o Str(StrVersion9P2000)>>}
    \cup {<<Tauth, NOFID \o Str(NameA) \o Str(<<>>)>>}
    \cup {<<Tattach, f \o NOFID \o Str(NameA) \o Str(<<>>)>> : f \in FidNums}
    \cup {<<Twalk, f \o g \o le16(Len(ns)) \o Names(ns)>> :
            f \in SrcFids, g \in NewFids, ns \in WalkNames}
    \cup {<<Twalk, Fid(0) \o Fid(1) \o le16(Len(ns)) \o Names(ns)>> :
            ns \in {Dots(P9_MAX_WALK_ELEMENTS)}}
    \cup {<<Topen, f \o <<0>> >> : f \in SrcFids}
    \cup {<<Tcreate, Fid(0) \o Str(NameB) \o PermFile \o <<1>> >>}
    \cup {<<Tcreate, f \o pm \o <<1>> \o Str(NameB)>> :
            f \in SrcFids, pm \in {PermFile, PermDMDIR, PermOctalDir}}
    \cup {<<Tread, f \o Offset0 \o le32(8)>> : f \in SrcFids}
    \cup {<<Twrite, f \o Offset0 \o le32(1) \o <<120>> >> : f \in SrcFids}
    \cup {<<Twrite, Fid(1) \o Offset0 \o le32(2) \o <<120>> >>}
    \cup {<<Tclunk, f>> : f \in FidNums}
    \cup {<<Tremove, f>> : f \in SrcFids}
    \cup {<<Tstat, f>> : f \in SrcFids}
    \cup {<<Twstat, f \o le16(Len(StatRecord(NameB))) \o StatRecord(NameB)>> :
            f \in SrcFids}
    \cup {<<Tflush, le16(1)>>}
    \cup {<<99, <<>> >>, <<Tclunk, <<>> >>}

Requests == {Msg(p[1], TagOf(p[1]), p[2]) : p \in Payloads}

(* segments that do not hold exactly one request: a header announcing a    *)
(* size outside 7..P9_MAX_MSG_SIZE, two requests in one segment, and a     *)
(* request split in two segments                                           *)
OddSegments ==
    {le32(6) \o <<Tclunk, 1, 0>>, le32(P9_MAX_MSG_SIZE + 1) \o <<Tclunk, 1, 0>>,
     SubSeq(Msg(Tclunk, 1, Fid(0)), 1, 3),
     SubSeq(Msg(Tclunk, 1, Fid(0)), 4, 11)}

Pipelined == Msg(Tclunk, 1, Fid(0)) \o Msg(Tstat, 2, Fid(0))

(* a Tclunk of header only and the request that follows it, in one segment *)
ShortThenNext == Msg(Tclunk, 1, <<>>) \o Msg(Tstat, 2, Fid(0))

(* a Twalk of one element more than the arrays of p9_handle_walk hold *)
LongWalk ==
    Msg(Twalk, 1, Fid(0) \o Fid(1) \o le16(P9_MAX_WALK_ELEMENTS + 1)
                  \o Names(Dots(P9_MAX_WALK_ELEMENTS + 1)))

(* a clone of fid 0 and the clunk of the clone, in one segment *)
CloneThenClunk ==
    {Msg(Twalk, 1, Fid(0) \o g \o le16(0)) \o Msg(Tclunk, 2, g) : g \in NewFids}

(* an open and the first read or write that follows it, in one segment; the *)
(* read starts at offset 0, at the end of the file or at offset 2^32       *)
Offset4G == <<0, 0, 0, 0, 1, 0, 0, 0>>
OffsetEnd == <<FileLen, 0, 0, 0, 0, 0, 0, 0>>
OpenThenAccess ==
    {Msg(Topen, 1, f \o <<0>>) \o Msg(Tread, 2, f \o off \o le32(8)) :
        f \in SrcFids, off \in {Offset0, OffsetEnd, Offset4G}}
    \cup {Msg(Topen, 1, f \o <<1>>) \o Msg(Twrite, 2, f \o Offset0 \o le32(1) \o <<120>>) :
        f \in SrcFids}

UsesBackend == {Twalk, Topen, Tcreate, Tread, Twrite, Tremove, Tstat, Twstat}

(* the environment's choices during one request: io, the medium fails;     *)
(* tcp_ok, tcp_write accepts the response; junk, the value found in an     *)
(* uninitialised cursor; stray, the string found through an entry of the   *)
(* names array of p9_handle_walk that lies past its end                    *)
Envs == [io : BOOLEAN, tcp_ok : BOOLEAN, junk : {0}, stray : {<<>>}]
NoFault == [io |-> FALSE, tcp_ok |-> TRUE, junk |-> 0, stray |-> <<>>]

(* the requests during which tcp_write may refuse the response: one that   *)
(* changes the session, one that reads the backend, one of unknown type    *)
TcpMayFail == {Tclunk, Tstat, 99}

EnvsOf(type) == {e \in Envs : /\ e.io => type \in UsesBackend
                              /\ ~e.tcp_ok => type \in TcpMayFail}

(* what one p9_tcp_recv call is given: the segment's bytes and, for the    *)
(* requests it completes, the environment during each                      *)
Deliveries ==
    UNION {{[seg |-> s, envs |-> <<e, e>>] : e \in EnvsOf(s[5])} : s \in Requests}
    \cup {[seg |-> s, envs |-> <<NoFault, NoFault>>] : s \in OddSegments}
    \cup {[seg |-> Pipelined, envs |-> <<e1, e2>>] :
             e1 \in EnvsOf(Tclunk), e2 \in EnvsOf(Tstat)}
    \cup {[seg |-> s, envs |-> <<NoFault, NoFault>>] : s \in CloneThenClunk}
    \cup {[seg |-> ShortThenNext, envs |-> <<NoFault, NoFault>>]}
    \cup {[seg |-> LongWalk, envs |-> <<[NoFault EXCEPT !.stray = s], NoFault>>] :
             s \in Strays}
    \cup {[seg |-> s, envs |-> <<e1, NoFault>>] :
             s \in OpenThenAccess, e1 \in EnvsOf(Topen)}

(***************************************************************************)
(* History kept for the properties                                         *)
(***************************************************************************)
ReqType(e) == e.msg[5]

(* the 32-bit field at bytes k+1..k+4 of the request *)
ReqU32(e, k) == SubSeq(e.msg, k + 1, k + 4)

(* the slots of snapshot sn holding fid number f *)
LiveSlots(sn, f) == {i \in Slots : sn.fids[i].in_use /\ sn.fids[i].fid = f}
Live(sn, f) == LiveSlots(sn, f) # {}

(* the fid numbers that, after exchange e, denote a FID that has had a     *)
(* successful Topen or Tcreate since it was created, given the set op of   *)
(* those before e: a fid number leaves the set when its FID is destroyed   *)
OpenedAfter(op, e) ==
    LET granted == IF ReqType(e) \in {Topen, Tcreate} /\ e.valid_type /\ ~e.failed
                   THEN {ReqU32(e, 7)} ELSE {}
    IN {g \in op \cup granted : Live(e.pre, g) /\ Live(e.post, g)}

(* the set before the exchange number i of history h, starting from op *)
RECURSIVE OpenedBefore(_, _, _)
OpenedBefore(op, h, i) ==
    IF i <= 1 THEN op ELSE OpenedAfter(OpenedBefore(op, h, i - 1), h[i - 1])

(***************************************************************************)
(* State                                                                   *)
(***************************************************************************)
(* client: the session's p9_client_t; backend: the storage;                *)
(* messages_received: g_server.stats.messages_received;                    *)
(* log, framer: history of the last p9_tcp_recv call, read only by the     *)
(* properties: one entry per request it processed, and how its loop ended; *)
(* opened: history, the fid numbers opened (see OpenedAfter) when the last *)
(* p9_tcp_recv call began                                                  *)
VARIABLES client, backend, messages_received, log, framer, opened

(* The server as a whole (see "The server" below).  g_server: the global    *)
(* of picocalc_9p.c with its client slots, counters and mutex; core1_pc:   *)
(* where Core 1 stands, in its loop or inside p9_server_stop;              *)
(* server_should_run: the flag Core 0 sets; event, handles: history read   *)
(* only by the properties: the last connection event, and per slot the     *)
(* backend handles its session opened and has not closed                   *)
VARIABLES g_server, core1_pc, server_should_run, event, handles

(* The storage lock (see "The storage lock" below).  fat32_mutex: who      *)
(* holds the mutex of picocalc_fat32_sync.c; handler: the request Core 1   *)
(* is serving, step by step; fid_entry: the FID that request names; reply: *)
(* the response sent for it; foreground: where Core 0 stands in its own    *)
(* use of the volume                                                       *)
VARIABLES fat32_mutex, handler, fid_entry, reply, foreground

(* One call of a function of the codec or of the path layer taken by       *)
(* itself (see "Functions taken by themselves" below): fn, the function;   *)
(* arg, its arguments; done, whether it has returned; out, what it         *)
(* returned                                                                *)
VARIABLE call

session_vars == <<client, backend, messages_received, log, framer, opened>>
server_vars == <<g_server, core1_pc, server_should_run, event, handles>>
storage_vars == <<fat32_mutex, handler, fid_entry, reply, foreground>>

vars == <<session_vars, server_vars, storage_vars, call>>

NoFramer == [verdict |-> "None", buffered |-> 0, size |-> 0, max_msg_size |-> 0]

(* the volume holds the directory /a and the file /a/b *)
InitBackend == [dirs |-> {Root, Root \o NameA},
                files |-> {Root \o NameA \o <<ChSlash>> \o NameB},
                nopen |-> 0]

(* the client slots of g_server; MaxConnections and MaxServerMsgs bound the *)
(* connections accepted and the requests served where the whole server is  *)
(* followed                                                                *)
P9_MAX_CLIENTS == 3
MaxConnections == 3
MaxServerMsgs == 3

Clients == 1..P9_MAX_CLIENTS

(* g_server after p9_server_init *)
p9_server_init ==
    [state |-> "STOPPED", listen_pcb |-> FALSE,
     clients |-> [i \in Clients |-> IdleClient],
     stats |-> [total_connections |-> 0, active_connections |-> 0],
     mutex |-> "free"]

(* history: no connection event; prev is the slot's content before an      *)
(* accept, active_before the counter before a close                        *)
NoEvent == [op |-> "none", slot |-> 0, prev |-> IdleClient, active_before |-> 0]

(* Core 1 has called p9_server_init and runs its loop; Core 0 has not      *)
(* asked for the server yet                                                *)
ServerIdle ==
    /\ g_server = p9_server_init
    /\ core1_pc = "loop"
    /\ server_should_run = FALSE
    /\ event = NoEvent
    /\ handles = [i \in Clients |-> 0]

(* The FID a request names, as far as the storage calls go: in_use, and    *)
(* file.is_open.  The session has attached: the FID is live and not open.  *)
AttachedFid == [in_use |-> TRUE, is_open |-> FALSE]

(* Core 1 between two requests.  type: the request's type; pc: where the   *)
(* handler stands; calls: the fat32_sync_* calls it still has to make, the *)
(* first being the one in progress; err: what the last call returned;      *)
(* status: what p9_remove_file returned; out: the response it has built.   *)
(* History: held, the backend calls made since the mutex was last taken;   *)
(* done, those made for this request; timeout, a call of this request      *)
(* gave up waiting for the mutex; pre, the FID when the request began.     *)
IdleHandler ==
    [type |-> 0, pc |-> "idle", calls |-> <<>>, err |-> "FAT32_OK",
     status |-> "FAT32_OK", out |-> [type |-> 0, ename |-> ""],
     held |-> 0, done |-> <<>>, timeout |-> FALSE, pre |-> AttachedFid]

(* history: no response sent yet *)
NoReply == [type |-> 0, ename |-> "", req |-> 0, timeout |-> FALSE,
            done |-> <<>>, pre |-> AttachedFid]

(* fat32_sync_init has run; Core 0 is about to look for its startup script *)
(* (step 1 of ForegroundCalls) and WiFi is not connected                   *)
StorageIdle ==
    /\ fat32_mutex = "free"
    /\ handler = IdleHandler
    /\ fid_entry = AttachedFid
    /\ reply = NoReply
    /\ foreground = [step |-> 1, inside |-> FALSE, wifi |-> FALSE]

(* no session, the server stopped, the storage idle *)
ProgramIdle ==
    /\ client = IdleClient
    /\ backend = InitBackend
    /\ log = <<>>
    /\ framer = NoFramer
    /\ opened = {}
    /\ messages_received = 0
    /\ ServerIdle
    /\ StorageIdle

NoCall == [fn |-> "none", arg |-> <<>>, done |-> TRUE, out |-> <<>>]

Init ==
    /\ ProgramIdle
    /\ call = NoCall

p9_tcp_accept ==
    /\ ~client.active
    /\ client' = FreshClient
    /\ log' = <<>>
    /\ framer' = NoFramer
    /\ opened' = {}
    /\ UNCHANGED <<backend, messages_received>>
    /\ UNCHANGED <<server_vars, storage_vars, call>>

(* the state after a p9_tcp_recv call whose loop returned r *)
Delivered(r) ==
    /\ client' = Cleared(r.w.c)
    /\ backend' = r.w.be
    /\ log' = r.log
    /\ framer' = r.exit
    /\ opened' = OpenedBefore(opened, log, Len(log) + 1)
    /\ messages_received' = messages_received + Len(r.log)

Deliver(r) == Delivered(r) /\ UNCHANGED <<server_vars, storage_vars, call>>

(* p9_tcp_recv with the data seg; envs[i] is the environment during the    *)
(* i-th request the call processes                                         *)
Recv(seg, envs) ==
    Deliver(RecvLoop(World([client EXCEPT !.rx_buffer = CopyIn(@, seg)], backend),
                     <<>>, envs))

p9_tcp_recv ==
    /\ client.active
    /\ messages_received < MaxMsgs
    /\ \E d \in Deliveries : Recv(d.seg, d.envs)

(* p9_tcp_recv with p = NULL (the peer closed) or err # ERR_OK *)
p9_tcp_recv_closed ==
    /\ client.active
    /\ LET w == p9_client_close(World(client, backend))
       IN client' = Cleared(w.c) /\ backend' = w.be
    /\ log' = <<>>
    /\ framer' = NoFramer
    /\ opened' = {}
    /\ UNCHANGED messages_received
    /\ UNCHANGED <<server_vars, storage_vars, call>>

p9_tcp_err ==
    /\ client.active
    /\ LET w == p9_client_close(World([client EXCEPT !.pcb = FALSE], backend))
       IN client' = Cleared(w.c) /\ backend' = w.be
    /\ log' = <<>>
    /\ framer' = NoFramer
    /\ opened' = {}
    /\ UNCHANGED messages_received
    /\ UNCHANGED <<server_vars, storage_vars, call>>

Next == p9_tcp_accept \/ p9_tcp_recv \/ p9_tcp_recv_closed \/ p9_tcp_err

Spec == Init /\ [][Next]_vars

(***************************************************************************)
(* The server: Core 1's loop, the connection callbacks of every slot and   *)
(* p9_server_start / p9_server_stop (picocalc_9p.c, picocalc_9p_core1.c).  *)
(* Core 1 runs its loop, the lwIP callbacks and the 9P handlers one after  *)
(* the other; Core 0 only sets server_should_run.                          *)
(***************************************************************************)
(* Pico SDK mutex_enter_blocking returns once the mutex has no owner; a    *)
(* mutex_t is not recursive, so its owner's own second call waits too      *)
mutex_enter_blocking(mtx) == mtx = "free"

ActiveSlots(g) == {i \in Clients : g.clients[i].active}

(* the for loop of p9_tcp_accept: the first slot that is not active, 0     *)
(* when every slot is active                                               *)
FreeSlot(g) ==
    IF ActiveSlots(g) = Clients THEN 0
    ELSE CHOOSE i \in Clients \ ActiveSlots(g) :
             \A j \in Clients \ ActiveSlots(g) : i <= j

(* "Initialize client" in p9_tcp_accept: memset, then the fields *)
InitializeClient_without_memset(c) ==
    [c EXCEPT !.active = TRUE, !.state = "CONNECTED", !.pcb = TRUE,
              !.max_msg_size = P9_MAX_MSG_SIZE, !.fid_table = p9_fid_table_init]

InitializeClient(c) ==
    [IdleClient EXCEPT !.active = TRUE, !.state = "CONNECTED", !.pcb = TRUE,
                       !.max_msg_size = P9_MAX_MSG_SIZE,
                       !.fid_table = p9_fid_table_init]

(* g_server after p9_client_close has closed slot i and left c in it: the  *)
(* part of p9_client_close between mutex_enter_blocking and mutex_exit     *)
(* that is not the session's                                               *)
ClientClosed_without_count(g, i, c) ==
    [g EXCEPT !.clients[i] = c, !.mutex = "free"]

ClientClosed(g, i, c) ==
    [g EXCEPT !.clients[i] = c,
              !.stats.active_connections = IF @ > 0 THEN @ - 1 ELSE @,
              !.mutex = "free"]

(* the backend handles a callback on slot i opened, less those it closed *)
HandlesAfter(i, be) == [handles EXCEPT ![i] = @ + be.nopen - backend.nopen]

SessionEvent(op, i) ==
    [NoEvent EXCEPT !.op = op, !.slot = i,
                    !.active_before = g_server.stats.active_connections]

server_tcp_accept ==
    /\ core1_pc = "loop"
    /\ g_server.listen_pcb
    /\ FreeSlot(g_server) # 0 => g_server.stats.total_connections < MaxConnections
    /\ mutex_enter_blocking(g_server.mutex)
    /\ LET i == FreeSlot(g_server) IN
       IF i = 0
       THEN /\ event' = [NoEvent EXCEPT !.op = "reject"]
            /\ UNCHANGED <<g_server, handles>>
       ELSE /\ g_server' = [g_server EXCEPT
                                !.clients[i] = InitializeClient(@),
                                !.stats.total_connections = @ + 1,
                                !.stats.active_connections = @ + 1]
            /\ event' = [NoEvent EXCEPT !.op = "accept", !.slot = i,
                                        !.prev = g_server.clients[i]]
            /\ handles' = [handles EXCEPT ![i] = 0]
    /\ UNCHANGED <<core1_pc, server_should_run, backend, messages_received>>
    /\ UNCHANGED <<client, log, framer, opened, storage_vars, call>>

(* the segments the sessions are given where the whole server is followed: *)
(* attach and open of the root in one segment, a further open, a header    *)
(* announcing size 6                                                       *)
ServerDeliveries ==
    {[seg |-> s, envs |-> <<NoFault, NoFault>>] :
        s \in {Msg(Tattach, 1, Fid(0) \o NOFID \o Str(NameA) \o Str(<<>>))
                  \o Msg(Topen, 2, Fid(0) \o <<0>>),
               Msg(Topen, 1, Fid(0) \o <<0>>),
               le32(6) \o <<Tclunk, 1, 0>>}}

(* the state after p9_tcp_recv on slot i whose loop returned r: the loop   *)
(* has closed the session if it found a header it refuses                  *)
ServerDeliver(i, r) ==
    /\ ~r.w.c.active => mutex_enter_blocking(g_server.mutex)
    /\ g_server' = IF r.w.c.active
                   THEN [g_server EXCEPT !.clients[i] = r.w.c]
                   ELSE ClientClosed(g_server, i, r.w.c)
    /\ backend' = r.w.be
    /\ handles' = HandlesAfter(i, r.w.be)
    /\ event' = IF r.w.c.active THEN NoEvent ELSE SessionEvent("framing", i)
    /\ messages_received' = messages_received + Len(r.log)

server_tcp_recv ==
    /\ core1_pc = "loop"
    /\ messages_received < MaxServerMsgs
    /\ \E i \in ActiveSlots(g_server), d \in ServerDeliveries :
           ServerDeliver(i, RecvLoop(World([g_server.clients[i] EXCEPT
                                               !.rx_buffer = CopyIn(@, d.seg)],
                                          backend),
                                    <<>>, d.envs))
    /\ UNCHANGED <<core1_pc, server_should_run>>
    /\ UNCHANGED <<client, log, framer, opened, storage_vars, call>>

(* p9_client_close called by a callback of slot i on the session c *)
ServerClose(op, i, w) ==
    /\ mutex_enter_blocking(g_server.mutex)
    /\ g_server' = ClientClosed(g_server, i, w.c)
    /\ backend' = w.be
    /\ handles' = HandlesAfter(i, w.be)
    /\ event' = SessionEvent(op, i)

(* p9_tcp_recv with p = NULL (the peer closed) or err # ERR_OK *)
server_tcp_recv_closed ==
    /\ core1_pc = "loop"
    /\ \E i \in ActiveSlots(g_server) :
           ServerClose("closed", i,
                       p9_client_close(World(g_server.clients[i], backend)))
    /\ UNCHANGED <<core1_pc, server_should_run, messages_received>>
    /\ UNCHANGED <<client, log, framer, opened, storage_vars, call>>

server_tcp_err ==
    /\ core1_pc = "loop"
    /\ \E i \in ActiveSlots(g_server) :
           ServerClose("closed", i,
                       p9_client_close(World([g_server.clients[i] EXCEPT
                                                 !.pcb = FALSE], backend)))
    /\ UNCHANGED <<core1_pc, server_should_run, messages_received>>
    /\ UNCHANGED <<client, log, framer, opened, storage_vars, call>>

(* Core 0: WiFi has connected, or has been lost *)
p9_server_request_start ==
    /\ ~server_should_run
    /\ server_should_run' = TRUE
    /\ UNCHANGED <<g_server, core1_pc, event, handles>>
    /\ UNCHANGED <<session_vars, storage_vars, call>>

p9_server_request_stop ==
    /\ server_should_run
    /\ server_should_run' = FALSE
    /\ UNCHANGED <<g_server, core1_pc, event, handles>>
    /\ UNCHANGED <<session_vars, storage_vars, call>>

(* Core 1's loop finds server_should_run set and the server not running:   *)
(* p9_server_start.  ok: tcp_new, tcp_bind and tcp_listen all succeed      *)
p9_server_start ==
    /\ core1_pc = "loop"
    /\ server_should_run
    /\ g_server.state # "RUNNING"
    /\ mutex_enter_blocking(g_server.mutex)
    /\ \E ok \in BOOLEAN :
           g_server' = IF g_server.state # "STOPPED" THEN g_server
                       ELSE IF ok
                       THEN [g_server EXCEPT !.state = "RUNNING",
                                             !.listen_pcb = TRUE]
                       ELSE [g_server EXCEPT !.state = "ERROR",
                                             !.listen_pcb = FALSE]
    /\ event' = NoEvent
    /\ UNCHANGED <<core1_pc, server_should_run, handles>>
    /\ UNCHANGED <<session_vars, storage_vars, call>>

(* Core 1's loop finds server_should_run cleared and the server running:   *)
(* p9_server_stop, up to its loop over the client slots                    *)
p9_server_stop ==
    /\ core1_pc = "loop"
    /\ ~server_should_run
    /\ g_server.state = "RUNNING"
    /\ mutex_enter_blocking(g_server.mutex)
    /\ g_server' = [g_server EXCEPT !.mutex = "core1", !.state = "STOPPING"]
    /\ core1_pc' = "stop"
    /\ event' = NoEvent
    /\ UNCHANGED <<server_should_run, handles>>
    /\ UNCHANGED <<session_vars, storage_vars, call>>

(* the rest of p9_server_stop: p9_client_close for the next active slot,   *)
(* or, none being left, the listener is closed and the function returns    *)
p9_server_stop_clients ==
    /\ core1_pc = "stop"
    /\ IF ActiveSlots(g_server) # {}
       THEN LET i == CHOOSE i \in ActiveSlots(g_server) :
                         \A j \in ActiveSlots(g_server) : i <= j
            IN /\ ServerClose("stop", i,
                              p9_client_close(World(g_server.clients[i], backend)))
               /\ UNCHANGED core1_pc
       ELSE /\ g_server' = [g_server EXCEPT !.listen_pcb = FALSE,
                                            !.state = "STOPPED",
                                            !.mutex = "free"]
            /\ core1_pc' = "loop"
            /\ event' = [NoEvent EXCEPT !.op = "stopped"]
            /\ UNCHANGED <<backend, handles>>
    /\ UNCHANGED <<server_should_run, messages_received>>
    /\ UNCHANGED <<client, log, framer, opened, storage_vars, call>>

ServerNext ==
    \/ server_tcp_accept \/ server_tcp_recv \/ server_tcp_recv_closed
    \/ server_tcp_err \/ p9_server_request_start \/ p9_server_request_stop
    \/ p9_server_start \/ p9_server_stop \/ p9_server_stop_clients

ServerSpec == Init /\ [][ServerNext]_vars

(***************************************************************************)
(* The storage lock (picocalc_fat32_sync.c): Core 1 serving one request    *)
(* step by step through the fat32_sync_* wrappers, Core 0 using the volume *)
(* in the foreground (main.c, picocalc_menu.c), and a caller of the        *)
(* exported fat32_sync_lock / fat32_sync_unlock pair holding the mutex     *)
(* around a batch of operations.                                           *)
(***************************************************************************)
(* fat32_sync_lock for the caller who: [ok, mtx].  With the mutex taken it *)
(* returns false once the timeout has passed.                              *)
fat32_sync_lock(mtx, who) ==
    IF mtx = "free" THEN [ok |-> TRUE, mtx |-> who] ELSE [ok |-> FALSE, mtx |-> mtx]

fat32_sync_unlock_missing(mtx) == mtx

fat32_sync_unlock(mtx) == "free"

fat32_error_to_string(err) ==
    IF err = "FAT32_OK" THEN "success"
    ELSE IF err = "FAT32_ERROR_INIT_FAILED" THEN "initialization failed"
    ELSE IF err = "FAT32_ERROR_READ_FAILED" THEN "read failed"
    ELSE IF err = "FAT32_ERROR_WRITE_FAILED" THEN "write failed"
    ELSE "unknown error"

(* the requests followed step by step *)
StorageRequests == {Tattach, Topen, Tread, Tclunk, Tremove}

(* whether the handler of a request of this type gets as far as its        *)
(* storage calls (or, for Tattach, to p9_fid_alloc) with the FID f         *)
Serves(type, f) ==
    IF type = Tattach THEN ~f.in_use
    ELSE IF type = Tread THEN f.in_use /\ f.is_open
    ELSE f.in_use

(* the fat32_sync_* calls the handler makes for the FID f, in order, as    *)
(* long as none makes it give up                                           *)
BackendCalls(type, f) ==
    IF type = Topen THEN <<"open">>
    ELSE IF type = Tread THEN <<"seek", "read">>
    ELSE IF type = Tclunk THEN (IF f.is_open THEN <<"close">> ELSE <<>>)
    ELSE IF type = Tremove
         THEN <<"delete">> \o (IF f.is_open THEN <<"close">> ELSE <<>>)
    ELSE <<>>

(* what the backend call op returns when the medium fails *)
BackendError(op) ==
    IF op \in {"delete", "close"} THEN "FAT32_ERROR_WRITE_FAILED"
    ELSE "FAT32_ERROR_READ_FAILED"

handler_begin ==
    /\ handler.pc = "idle"
    /\ foreground.wifi
    /\ \E type \in StorageRequests :
           /\ Serves(type, fid_entry)
           /\ handler' = [IdleHandler EXCEPT
                             !.type = type,
                             !.calls = BackendCalls(type, fid_entry),
                             !.pc = IF BackendCalls(type, fid_entry) = <<>>
                                    THEN "returned" ELSE "lock",
                             !.pre = fid_entry]
    /\ UNCHANGED <<fat32_mutex, fid_entry, reply, foreground>>
    /\ UNCHANGED <<session_vars, server_vars, call>>

(* the wrapper's first statement: fat32_sync_lock(5000); on false it       *)
(* returns FAT32_ERROR_INIT_FAILED                                         *)
sync_lock ==
    /\ handler.pc = "lock"
    /\ LET l == fat32_sync_lock(fat32_mutex, "core1") IN
       /\ fat32_mutex' = l.mtx
       /\ handler' = IF l.ok
                     THEN [handler EXCEPT !.pc = "call", !.held = 0]
                     ELSE [handler EXCEPT !.pc = "returned",
                                          !.err = "FAT32_ERROR_INIT_FAILED",
                                          !.timeout = TRUE]
    /\ UNCHANGED <<fid_entry, reply, foreground>>
    /\ UNCHANGED <<session_vars, server_vars, call>>

(* the backend call of the wrapper begins *)
sync_call_begin ==
    /\ handler.pc = "call"
    /\ handler' = [handler EXCEPT !.pc = "in_call", !.held = @ + 1,
                                  !.done = Append(@, Head(handler.calls))]
    /\ UNCHANGED <<fat32_mutex, fid_entry, reply, foreground>>
    /\ UNCHANGED <<session_vars, server_vars, call>>

(* and returns: fat32_open marks the file object open, fat32_close closed *)
sync_call_end ==
    /\ handler.pc = "in_call"
    /\ \E ok \in BOOLEAN :
           LET op == Head(handler.calls) IN
           /\ handler' = [handler EXCEPT
                             !.pc = "unlock",
                             !.err = IF ok THEN "FAT32_OK" ELSE BackendError(op)]
           /\ fid_entry' = IF ok /\ op = "open"
                           THEN [fid_entry EXCEPT !.is_open = TRUE]
                           ELSE IF ok /\ op = "close"
                           THEN [fid_entry EXCEPT !.is_open = FALSE]
                           ELSE fid_entry
    /\ UNCHANGED <<fat32_mutex, reply, foreground>>
    /\ UNCHANGED <<session_vars, server_vars, call>>

(* fat32_sync_unlock, and the wrapper returns the backend's result *)
sync_unlock ==
    /\ handler.pc = "unlock"
    /\ fat32_mutex' = fat32_sync_unlock(fat32_mutex)
    /\ handler' = [handler EXCEPT !.pc = "returned"]
    /\ UNCHANGED <<fid_entry, reply, foreground>>
    /\ UNCHANGED <<session_vars, server_vars, call>>

(* the handler h has built its response *)
Respond(h, type, ename) ==
    [h EXCEPT !.pc = "respond", !.calls = <<>>,
              !.out = [type |-> type, ename |-> ename]]

(* the handler h goes on to its next fat32_sync_* call *)
NextCall(h) == [h EXCEPT !.pc = "lock", !.calls = Tail(@)]

(* the handler's code after a wrapper has returned h.err (for Tattach, and *)
(* Tclunk of a FID that is not open: its code without a wrapper call):     *)
(* [h, f], the handler and the FID after it                                *)
Returned(h, f) ==
    IF h.type = Tattach
    THEN [h |-> Respond(h, Tattach + 1, ""), f |-> AttachedFid]
    ELSE IF h.type = Topen \/ h.type = Tread
    THEN IF h.err # "FAT32_OK"
         THEN [h |-> Respond(h, Rerror, fat32_error_to_string(h.err)), f |-> f]
         ELSE IF Len(h.calls) > 1
         THEN [h |-> NextCall(h), f |-> f]
         ELSE [h |-> Respond(h, h.type + 1, ""), f |-> f]
    ELSE IF h.type = Tclunk
    THEN [h |-> Respond(h, Tclunk + 1, ""), f |-> [f EXCEPT !.in_use = FALSE]]
    ELSE (* Tremove: p9_remove_file, then p9_fid_free whatever it returned *)
         IF h.calls # <<>> /\ Head(h.calls) = "delete" /\ Len(h.calls) > 1
         THEN [h |-> NextCall([h EXCEPT !.status = h.err]), f |-> f]
         ELSE LET status == IF h.calls # <<>> /\ Head(h.calls) = "delete"
                            THEN h.err ELSE h.status
              IN [h |-> IF status # "FAT32_OK"
                        THEN Respond(h, Rerror, fat32_error_to_string(status))
                        ELSE Respond(h, Tremove + 1, ""),
                  f |-> [f EXCEPT !.in_use = FALSE]]

handler_continue ==
    /\ handler.pc = "returned"
    /\ LET r == Returned(handler, fid_entry) IN
       /\ handler' = r.h
       /\ fid_entry' = r.f
    /\ UNCHANGED <<fat32_mutex, reply, foreground>>
    /\ UNCHANGED <<session_vars, server_vars, call>>

(* p9_process_message finalizes the response and hands it to tcp_write *)
handler_respond ==
    /\ handler.pc = "respond"
    /\ reply' = [type |-> handler.out.type, ename |-> handler.out.ename,
                 req |-> handler.type, timeout |-> handler.timeout,
                 done |-> handler.done, pre |-> handler.pre]
    /\ handler' = IdleHandler
    /\ UNCHANGED <<fat32_mutex, fid_entry, foreground>>
    /\ UNCHANGED <<session_vars, server_vars, call>>

(* a caller of the exported pair takes the mutex for a batch of            *)
(* operations (fat32_sync_lock(UINT32_MAX)), and gives it back             *)
batch_lock ==
    /\ fat32_sync_lock(fat32_mutex, "batch").ok
    /\ fat32_mutex' = fat32_sync_lock(fat32_mutex, "batch").mtx
    /\ UNCHANGED <<handler, fid_entry, reply, foreground>>
    /\ UNCHANGED <<session_vars, server_vars, call>>

batch_unlock ==
    /\ fat32_mutex = "batch"
    /\ fat32_mutex' = fat32_sync_unlock(fat32_mutex)
    /\ UNCHANGED <<handler, fid_entry, reply, foreground>>
    /\ UNCHANGED <<session_vars, server_vars, call>>

(* What Core 0 does with the volume: main reads /load81/start.lua          *)
(* (fat32_open, fat32_size, fat32_read), runs it, closes it; then the menu *)
(* lists /load81 (fat32_open, fat32_dir_read, fat32_close) and runs a      *)
(* program, again and again.  A Lua script may connect WiFi, which         *)
(* requests the 9P server.                                                 *)
ForegroundCalls ==
    <<"fat32_open", "fat32_size", "fat32_read", "lua", "fat32_close",
      "fat32_open", "fat32_dir_read", "fat32_close", "lua">>

MenuStep == 6

AfterStep(step) == IF step = Len(ForegroundCalls) THEN MenuStep ELSE step + 1

(* Core 0 enters a fat32_* function: it calls the driver directly *)
foreground_call ==
    /\ ForegroundCalls[foreground.step] # "lua"
    /\ ~foreground.inside
    /\ foreground' = [foreground EXCEPT !.inside = TRUE]
    /\ UNCHANGED <<fat32_mutex, handler, fid_entry, reply>>
    /\ UNCHANGED <<session_vars, server_vars, call>>

(* and leaves it; without a start.lua main goes on to the menu *)
foreground_return ==
    /\ foreground.inside
    /\ \E found \in BOOLEAN :
           foreground' = [foreground EXCEPT
                             !.inside = FALSE,
                             !.step = IF @ = 1 /\ ~found THEN MenuStep
                                      ELSE AfterStep(@)]
    /\ UNCHANGED <<fat32_mutex, handler, fid_entry, reply>>
    /\ UNCHANGED <<session_vars, server_vars, call>>

(* a Lua script runs; connect: it calls wifi.connect with success *)
foreground_lua ==
    /\ ForegroundCalls[foreground.step] = "lua"
    /\ \E connect \in BOOLEAN :
           foreground' = [foreground EXCEPT !.step = AfterStep(@),
                                           !.wifi = @ \/ connect]
    /\ UNCHANGED <<fat32_mutex, handler, fid_entry, reply>>
    /\ UNCHANGED <<session_vars, server_vars, call>>

StorageNext ==
    \/ handler_begin \/ sync_lock \/ sync_call_begin \/ sync_call_end
    \/ sync_unlock \/ handler_continue \/ handler_respond
    \/ batch_lock \/ batch_unlock
    \/ foreground_call \/ foreground_return \/ foreground_lua

StorageSpec == Init /\ [][StorageNext]_vars

(***************************************************************************)
(* Functions taken by themselves.  A specification of this part starts     *)
(* with the program idle and one call pending, its arguments drawn from a  *)
(* bounded set; its actions make the call and record what it returned.     *)
(***************************************************************************)
(* p9_normalize_path (picocalc_9p_fs.c) on every string of up to           *)
(* MaxPathLen characters out of '/', '.' and 'a', into a buffer that the   *)
(* longest result fits ('/' in front, NUL behind) or into one of           *)
(* FAT32_MAX_PATH_LEN bytes                                                *)
MaxPathLen == 8
PathChars == {ChSlash, ChDot, 97}
PathInputs == UNION {[1..n -> PathChars] : n \in 0..MaxPathLen}
PathBufSizes == {FAT32_MAX_PATH_LEN, MaxPathLen + 2}

PathInit ==
    /\ ProgramIdle
    /\ call \in {[fn |-> "p9_normalize_path", arg |-> <<path, size>>,
                  done |-> FALSE, out |-> <<>>, again |-> FALSE] :
                     path \in PathInputs, size \in PathBufSizes}

(* the call returns: out = [ok, path] *)
normalize_path ==
    /\ call.fn = "p9_normalize_path"
    /\ ~call.done
    /\ call' = [call EXCEPT !.done = TRUE,
                            !.out = p9_normalize_path(call.arg[1], call.arg[2])]
    /\ UNCHANGED <<session_vars, server_vars, storage_vars>>

(* the caller hands the result to p9_normalize_path once more, as          *)
(* p9_join_path does with a base path that was itself normalized           *)
normalize_again ==
    /\ call.fn = "p9_normalize_path"
    /\ call.done
    /\ ~call.again
    /\ call.out.ok
    /\ call' = [call EXCEPT !.arg = <<call.out.path, call.arg[2]>>,
                            !.done = FALSE, !.again = TRUE]
    /\ UNCHANGED <<session_vars, server_vars, storage_vars>>

PathNext == normalize_path \/ normalize_again

PathSpec == PathInit /\ [][PathNext]_vars

(***************************************************************************)
(* The codec of picocalc_9p_proto.c byte by byte.  Values are as the C     *)
(* code holds them: a uint8_t or uint16_t is a number; a uint32_t is the   *)
(* pair <<low, high>> of its 16-bit halves and a uint64_t the four 16-bit  *)
(* quarters, lowest first; a C string is the sequence of its bytes; a      *)
(* p9_string_t is [str, len] with str a C string or Null; a QID and a stat *)
(* record are records of these.  A cursor is [data, capacity, pos, error]. *)
(***************************************************************************)
(* the null pointer, set apart from every sequence of bytes *)
Null == <<256>>

(* msg->data[msg->pos .. ] = bs after the bounds check every writer makes *)
PutBytes(m, bs) ==
    IF m.error \/ m.pos + Len(bs) > m.capacity
    THEN [m EXCEPT !.error = TRUE]
    ELSE [m EXCEPT !.data = [k \in DOMAIN m.data |->
                                IF k > m.pos /\ k <= m.pos + Len(bs)
                                THEN bs[k - m.pos] ELSE m.data[k]],
                   !.pos = @ + Len(bs)]

(* val & 0xFF and (val >> 8) & 0xFF of a 16-bit quantity *)
LowHigh(val) == <<val % 256, (val \div 256) % 256>>

wire_u8(m, val) == PutBytes(m, <<val>>)

wire_u16(m, val) == PutBytes(m, LowHigh(val))

wire_u32(m, val) == PutBytes(m, LowHigh(val[1]) \o LowHigh(val[2]))

wire_u64(m, val) ==
    PutBytes(m, LowHigh(val[1]) \o LowHigh(val[2]) \o LowHigh(val[3]) \o LowHigh(val[4]))

(* strlen(str), 0 for a null pointer *)
strlen(str) == IF str = Null THEN 0 ELSE Len(str)

(* p9_write_string_len *)
wire_string_len(m, str, len) ==
    IF m.error \/ m.pos + 2 + len > m.capacity
    THEN [m EXCEPT !.error = TRUE]
    ELSE IF len > 0 /\ str # Null
         THEN PutBytes(wire_u16(m, len), SubSeq(str, 1, len))
         ELSE wire_u16(m, len)

(* p9_write_string *)
wire_string(m, str) ==
    IF m.error THEN m ELSE wire_string_len(m, str, strlen(str))

(* p9_write_qid *)
wire_qid(m, qid) ==
    IF m.error THEN m
    ELSE wire_u64(wire_u32(wire_u8(m, qid.type), qid.version), qid.path)

(* p9_stat_size of any stat record *)
StatSize(stat) ==
    53 + (2 + (IF stat.name.str # Null THEN stat.name.len ELSE 0))
       + (2 + (IF stat.uid.str # Null THEN stat.uid.len ELSE 0))
       + (2 + (IF stat.gid.str # Null THEN stat.gid.len ELSE 0))
       + (2 + (IF stat.muid.str # Null THEN stat.muid.len ELSE 0))
       + (2 + (IF stat.extension.str # Null THEN stat.extension.len ELSE 0))

StrNobody == <<110, 111, 98, 111, 100, 121>>

(* str ? str : dflt *)
OrDefault(s, dflt) == IF s.str # Null THEN s.str ELSE dflt

(* p9_write_stat; every writer that fails sets the sticky error flag and   *)
(* every writer called with it set does nothing, which is what the chain   *)
(* of || makes of the calls                                                *)
WireStatFixed(m, stat) ==
    wire_u64(wire_u32(wire_u32(wire_u32(
        wire_qid(wire_u32(wire_u16(wire_u16(m, StatSize(stat)), stat.type), stat.dev),
                 stat.qid),
        stat.mode), stat.atime), stat.mtime), stat.length)

WireStatStrings(m, stat) ==
    wire_string(wire_string(wire_string(wire_string(wire_string(m,
        OrDefault(stat.name, <<>>)), OrDefault(stat.uid, StrNobody)),
        OrDefault(stat.gid, StrNobody)), OrDefault(stat.muid, StrNobody)),
        OrDefault(stat.extension, <<>>))

wire_stat(m, stat) ==
    IF m.error THEN m
    ELSE wire_u32(wire_u32(wire_u32(WireStatStrings(WireStatFixed(m, stat), stat),
                                    stat.n_uid), stat.n_gid), stat.n_muid)

(* the uint32_t and uint64_t the readers assemble from the bytes read *)
Halves(bs) == [k \in 1..(Len(bs) \div 2) |-> bs[2 * k - 1] + 256 * bs[2 * k]]

value_u32(m) ==
    LET r == p9_read_u32(m) IN [val |-> Halves(r.val), msg |-> r.msg]

value_u64(m) ==
    LET r == p9_read_u64(m) IN [val |-> Halves(r.val), msg |-> r.msg]

(* the p9_string_t p9_read_string fills in *)
value_string(m) ==
    LET r == p9_read_string(m) IN
    [ok |-> r.ok, msg |-> r.msg,
     val |-> IF r.ok /\ Len(r.val) > 0 THEN [str |-> r.val, len |-> Len(r.val)]
             ELSE [str |-> Null, len |-> IF r.ok THEN 0 ELSE 0]]

(* p9_read_qid *)
value_qid(m) ==
    LET t == p9_read_u8(m)
        v == value_u32(t.msg)
        q == value_u64(v.msg)
    IN [ok |-> ~q.msg.error, msg |-> q.msg,
        val |-> [type |-> t.val, version |-> v.val, path |-> q.val]]

(* p9_read_stat: with the error flag sticky a failed read leaves zeros *)
value_stat(m) ==
    LET size == p9_read_u16(m)
        type == p9_read_u16(size.msg)
        dev == value_u32(type.msg)
        qid == value_qid(dev.msg)
        mode == value_u32(qid.msg)
        atime == value_u32(mode.msg)
        mtime == value_u32(atime.msg)
        length == value_u64(mtime.msg)
        name == value_string(length.msg)
        uid == value_string(name.msg)
        gid == value_string(uid.msg)
        muid == value_string(gid.msg)
        ext == value_string(muid.msg)
        n_uid == value_u32(ext.msg)
        n_gid == value_u32(n_uid.msg)
        n_muid == value_u32(n_gid.msg)
    IN [ok |-> ~n_muid.msg.error, msg |-> n_muid.msg,
        val |-> [size |-> size.val, type |-> type.val, dev |-> dev.val,
                 qid |-> qid.val, mode |-> mode.val, atime |-> atime.val,
                 mtime |-> mtime.val, length |-> length.val,
                 name |-> name.val, uid |-> uid.val, gid |-> gid.val,
                 muid |-> muid.val, extension |-> ext.val,
                 n_uid |-> n_uid.val, n_gid |-> n_gid.val,
                 n_muid |-> n_muid.val]]

(* the writer and the reader of each kind of value *)
Write(kind, m, val) ==
    CASE kind = "u8" -> wire_u8(m, val)
      [] kind = "u16" -> wire_u16(m, val)
      [] kind = "u32" -> wire_u32(m, val)
      [] kind = "u64" -> wire_u64(m, val)
      [] kind = "string" -> wire_string(m, val)
      [] kind = "qid" -> wire_qid(m, val)
      [] kind = "stat" -> wire_stat(m, val)

Read(kind, m) ==
    CASE kind = "u8" -> p9_read_u8(m)
      [] kind = "u16" -> p9_read_u16(m)
      [] kind = "u32" -> value_u32(m)
      [] kind = "u64" -> value_u64(m)
      [] kind = "string" -> value_string(m)
      [] kind = "qid" -> value_qid(m)
      [] kind = "stat" -> value_stat(m)

(* The values written: every 16-bit part out of QuarterVals, strings of up *)
(* to MaxStrLen bytes, and stat records whose string fields are absent,    *)
(* empty or not, with the size member as p9_fat_to_stat leaves it (0) or   *)
(* set to p9_stat_size.  The buffer holds CodecCapacity bytes of 0xAA; the *)
(* cursor starts at its beginning or behind a header.                      *)
MaxStrLen == 3
CodecCapacity == 96
QuarterVals == {0, 258, 65535}
StrChars == {97, 255}
CStrings == UNION {[1..n -> StrChars] : n \in 0..MaxStrLen}
U32Vals == {<<a, b>> : a \in QuarterVals, b \in QuarterVals}
U64Vals == {<<a, b, c, d>> : a \in QuarterVals, b \in QuarterVals,
                             c \in QuarterVals, d \in QuarterVals}
QidVals == {[type |-> t, version |-> <<258, 772>>, path |-> p] :
               t \in {P9_QTFILE, P9_QTDIR},
               p \in {<<1, 0, 0, 0>>, <<258, 772, 1286, 65535>>}}

P9String(str) == [str |-> str, len |-> strlen(str)]

StatOf(size, name, uid, ext) ==
    [size |-> size, type |-> 1, dev |-> <<2, 3>>,
     qid |-> [type |-> P9_QTDIR, version |-> <<4, 5>>, path |-> <<6, 7, 8, 9>>],
     mode |-> <<493, 16384>>, atime |-> <<10, 11>>, mtime |-> <<12, 13>>,
     length |-> <<14, 15, 16, 17>>,
     name |-> P9String(name), uid |-> P9String(uid),
     gid |-> P9String(<<103>>), muid |-> P9String(<<109, 109>>),
     extension |-> P9String(ext),
     n_uid |-> <<1000, 0>>, n_gid |-> <<1001, 0>>, n_muid |-> <<1002, 0>>]

StatStrs == {Null, <<>>, <<97>>}

StatVals ==
    UNION {{StatOf(0, name, uid, ext),
            StatOf(StatSize(StatOf(0, name, uid, ext)), name, uid, ext)} :
              name \in StatStrs, uid \in StatStrs, ext \in {Null, <<120>>}}

CodecValues ==
    {<<"u8", v>> : v \in {0, 1, 255}}
    \cup {<<"u16", v>> : v \in {0, 255, 256, 258, 65535}}
    \cup {<<"u32", v>> : v \in U32Vals}
    \cup {<<"u64", v>> : v \in U64Vals}
    \cup {<<"string", v>> : v \in CStrings}
    \cup {<<"qid", v>> : v \in QidVals}
    \cup {<<"stat", v>> : v \in StatVals}

HeaderLen == 7

Cursor(pos) ==
    [data |-> [k \in 1..CodecCapacity |-> 170], capacity |-> CodecCapacity,
     pos |-> pos, error |-> FALSE]

CodecInit ==
    /\ ProgramIdle
    /\ call \in {[fn |-> kv[1], arg |-> <<kv[2], pos>>, done |-> FALSE,
                  out |-> <<>>, step |-> "pending"] :
                     kv \in CodecValues, pos \in {0, HeaderLen}}

(* the p9_write_* function of the value's kind writes it at the cursor *)
codec_write ==
    /\ call.step = "pending"
    /\ call' = [call EXCEPT
                   !.step = "written",
                   !.out = [written |-> Write(call.fn, Cursor(call.arg[2]), call.arg[1])]]
    /\ UNCHANGED <<session_vars, server_vars, storage_vars>>

(* the matching p9_read_* function reads the buffer written, from the      *)
(* position the writer started at                                          *)
codec_read ==
    /\ call.step = "written"
    /\ call' = [call EXCEPT
                   !.step = "read", !.done = TRUE,
                   !.out = [written |-> call.out.written,
                            read |-> Read(call.fn,
                                          [call.out.written EXCEPT !.pos = call.arg[2]])]]
    /\ UNCHANGED <<session_vars, server_vars, storage_vars>>

CodecNext == codec_write \/ codec_read

CodecSpec == CodecInit /\ [][CodecNext]_vars

(***************************************************************************)
(* The receive path with messages as long as the receive buffer            *)
(* (p9_tcp_recv, picocalc_9p.c).  A message arrives in segments: the first *)
(* bytes of a message whose header announces size bytes, then segments of  *)
(* fill bytes.  call keeps the last segment and the bytes that were        *)
(* buffered when it arrived.                                               *)
(***************************************************************************)
MaxFill == 2

(* the first k bytes of a Tclunk of fid 0 announcing size bytes *)
HeadOf(size, k) == SubSeq(le32(size) \o <<Tclunk, 1, 0, 0, 0, 0, 0>>, 1, k)

Fill(n, b) == [i \in 1..n |-> b]

(* the segments: heads of 7 and 11 bytes when nothing is buffered; then    *)
(* fills that end exactly at the end of the buffer, one byte before it,    *)
(* and up to MaxFill bytes past it                                         *)
Heads ==
    {HeadOf(size, k) : size \in {P9_MAX_MSG_SIZE, P9_MAX_MSG_SIZE - 1}, k \in {7, 11}}

Fills == {Fill(P9_MAX_MSG_SIZE - k + d, 0) : k \in {7, 11}, d \in (0 - 1)..MaxFill}

LargeSegments(buffered) == IF buffered = <<>> THEN Heads ELSE Fills

recv_segment ==
    /\ client.active
    /\ messages_received < MaxMsgs
    /\ \E seg \in LargeSegments(client.rx_buffer) :
           /\ Delivered(RecvLoop(World([client EXCEPT !.rx_buffer = CopyIn(@, seg)],
                                       backend),
                                 <<>>, <<NoFault, NoFault>>))
           /\ call' = [fn |-> "p9_tcp_recv", arg |-> <<seg, client.rx_buffer>>,
                       done |-> TRUE, out |-> <<>>]
    /\ UNCHANGED <<server_vars, storage_vars>>

FrameNext == p9_tcp_accept \/ recv_segment \/ p9_tcp_recv_closed

FrameSpec == Init /\ [][FrameNext]_vars

(***************************************************************************)
(* Properties.  They read the history of the last p9_tcp_recv call: each   *)
(* entry of log holds the request's bytes (msg), the session before (pre)  *)
(* and after (post) the request, the reply handed to tcp_write (resp) and  *)
(* whether tcp_write accepted it (written).                                *)
(***************************************************************************)
RespType(e) == e.resp.hdr[5]
RespTag(e) == LEVal(SubSeq(e.resp.hdr, 6, 7))
RespSize(e) == LEVal(SubSeq(e.resp.hdr, 1, 3))
ReqTag(e) == LEVal(SubSeq(e.msg, 6, 7))

(* the payload of the reply is exactly one length-prefixed string *)
OneString(e) == Len(e.resp.fields) = 1 /\ e.resp.fields[1].t = "string"

(* the reply tells the client that the request failed, in either encoding *)
IsErrorReply(e) == e.failed \/ RespType(e) = Rerror

Full(sn) == \A i \in Slots : sn.fids[i].in_use
SnapBe(sn) == [dirs |-> sn.dirs, files |-> sn.files, nopen |-> sn.nopen]
SameBackend(e) == SnapBe(e.pre) = SnapBe(e.post)

(* C1: whenever the handler of a valid request type reports a failure, the *)
(* message sent has type 107 (Rerror), carries the request's tag and holds *)
(* exactly one string; type + 1 is used only for successful replies.       *)
C1_HandlerFailureIsRerror ==
    \A i \in DOMAIN log :
        LET e == log[i] IN
        (e.valid_type /\ e.written) =>
            IF e.failed
            THEN RespType(e) = Rerror /\ RespTag(e) = ReqTag(e) /\ OneString(e)
            ELSE RespType(e) = ReqType(e) + 1

(* C2: the response sent for a processed request (success reply, handler   *)
(* error reply or the Rerror for an unknown type) carries the 16-bit tag   *)
(* found at bytes 5..6 of that request.                                    *)
C2_ResponseTagIsRequestTag ==
    \A i \in DOMAIN log :
        log[i].written => RespTag(log[i]) = ReqTag(log[i])

(* C2's case: two requests with different tags arrive in one segment, the  *)
(* first answered with a success reply and the second with an error reply *)
C2_Witness ==
    /\ Len(log) = 2
    /\ log[1].written /\ log[2].written
    /\ ~log[1].failed /\ log[2].failed
    /\ ReqTag(log[1]) # ReqTag(log[2])

(* C2's other case: the Rerror for an unknown message type *)
C2_WitnessUnknownType ==
    \E i \in DOMAIN log : log[i].written /\ ~log[i].valid_type /\ ReqTag(log[i]) = 258

(* C3: requests are executed only in a session state that allows them.     *)
(* In state connected a request other than Tversion has no FID-table or    *)
(* backend effect and terminates the session; before a Tattach has         *)
(* completed a request other than Tversion and Tattach is refused and has  *)
(* no FID-table or backend effect.                                         *)
C3_RequestsGatedByState ==
    \A i \in DOMAIN log :
        LET e == log[i] IN
        /\ (e.pre.state = "CONNECTED" /\ ReqType(e) # Tversion) =>
               /\ e.post.fids = e.pre.fids
               /\ SameBackend(e)
               /\ ~e.post.active
        /\ (e.pre.state # "ATTACHED" /\ ReqType(e) \notin {Tversion, Tattach}) =>
               /\ IsErrorReply(e)
               /\ e.post.fids = e.pre.fids
               /\ SameBackend(e)

(* C4: immediately after a successful Tversion, at any point of a session, *)
(* the FID table holds no live FID and every backend file those FIDs had   *)
(* open has been closed.                                                   *)
C4_VersionEmptiesFidTable ==
    \A i \in DOMAIN log :
        LET e == log[i]
            open == {s \in Slots : e.pre.fids[s].in_use /\ e.pre.fids[s].file.is_open}
        IN (ReqType(e) = Tversion /\ ~e.failed) =>
               /\ \A s \in Slots : ~e.post.fids[s].in_use
               /\ e.post.nopen = e.pre.nopen - Cardinality(open)

(* C5: with M the negotiated msize: once 4 bytes are buffered a header     *)
(* size S < 7 or S > M terminates the session without dispatching; with    *)
(* 7 <= S <= M and S bytes buffered the message is dispatched; otherwise   *)
(* the receiver waits for more bytes.                                      *)
C5_FramingAgainstNegotiatedMsize ==
    /\ \A i \in DOMAIN log :
           /\ 7 <= log[i].size
           /\ log[i].size <= log[i].pre.max_msg_size
    /\ framer.verdict = "Malformed" =>
           /\ framer.buffered >= 4
           /\ (framer.size < 7 \/ framer.size > framer.max_msg_size)
           /\ ~client.active
    /\ framer.verdict = "NeedMore" =>
           /\ \/ framer.buffered < 4
              \/ /\ 7 <= framer.size /\ framer.size <= framer.max_msg_size
                 /\ framer.buffered < framer.size
           /\ client.active

(* C6: each request of a session yields exactly one response, written      *)
(* before the next request is processed, so that the k-th response sent    *)
(* answers the k-th request received, whatever the segmentation.           *)
C6_OneResponsePerRequest ==
    \A i \in DOMAIN log :
        /\ log[i].written
        /\ RespTag(log[i]) = ReqTag(log[i])
        /\ RespType(log[i]) \in {ReqType(log[i]) + 1, Rerror}

(* the fields of a Twalk request: fid, newfid, nwname and the names *)
WalkFid(e) == ReqU32(e, 7)
WalkNewFid(e) == ReqU32(e, 11)
WalkCount(e) == LEVal(SubSeq(e.msg, 16, 17))

RECURSIVE NamesAt(_, _, _)
NamesAt(msg, pos, n) ==
    IF n = 0 THEN <<>>
    ELSE LET l == LEVal(SubSeq(msg, pos + 1, pos + 2))
         IN <<SubSeq(msg, pos + 3, pos + 2 + l)>> \o NamesAt(msg, pos + 2 + l, n - 1)

(* the elements as the walk sees them: the names of the request, and from  *)
(* P9_MAX_WALK_ELEMENTS on what the environment put behind the array       *)
WalkElements(e) ==
    IF WalkCount(e) <= P9_MAX_WALK_ELEMENTS
    THEN NamesAt(e.msg, 17, WalkCount(e))
    ELSE NamesArray(NamesAt(e.msg, 17, P9_MAX_WALK_ELEMENTS), WalkCount(e),
                    e.env.stray)

(* the object that name denotes in directory dir: "." is dir itself, ".."  *)
(* its parent (the root's parent is the root)                              *)
Step(dir, name) ==
    IF name = <<>> \/ name = <<ChDot>> THEN dir
    ELSE IF name = <<ChDot, ChDot>> THEN Parent(dir)
    ELSE IF dir = Root THEN Root \o name
    ELSE dir \o <<ChSlash>> \o name

(* the object an absolute path denotes, whatever "." and ".." components   *)
(* and repeated '/' it is written with; rest is the part of the path not   *)
(* yet looked at and name the component being collected                    *)
RECURSIVE DenotedFrom(_, _, _)
DenotedFrom(dir, name, rest) ==
    IF rest = <<>> THEN Step(dir, name)
    ELSE IF Head(rest) = ChSlash THEN DenotedFrom(Step(dir, name), <<>>, Tail(rest))
    ELSE DenotedFrom(dir, Append(name, Head(rest)), Tail(rest))

Denoted(path) == DenotedFrom(Root, <<>>, path)

(* the number of leading elements of names that can be looked up one after *)
(* the other from directory dir, written as a path of len characters: an   *)
(* element is found when it exists in backend be and its name, appended to *)
(* the directory's path with a '/' and the terminator, fits a path buffer; *)
(* none is found when the medium fails                                     *)
RECURSIVE Resolvable(_, _, _, _, _)
Resolvable(be, dir, len, names, io) ==
    IF names = <<>> \/ io THEN 0
    ELSE IF /\ len + Len(Head(names)) + 2 <= FAT32_MAX_PATH_LEN
            /\ Exists(be, Step(dir, Head(names)))
         THEN 1 + Resolvable(be, Step(dir, Head(names)),
                             Len(Step(dir, Head(names))), Tail(names), io)
         ELSE 0

(* the object reached from dir by looking up names one after the other *)
RECURSIVE StepAll(_, _)
StepAll(dir, names) ==
    IF names = <<>> THEN dir ELSE StepAll(Step(dir, Head(names)), Tail(names))

(* a Twalk of n >= 1 elements from a live FID; k of them can be resolved *)
IsWalk(e) ==
    /\ ReqType(e) = Twalk
    /\ Live(e.pre, WalkFid(e))
    /\ WalkCount(e) >= 1

Resolved(e) ==
    LET src == CHOOSE s \in LiveSlots(e.pre, WalkFid(e)) : TRUE
    IN Resolvable(SnapBe(e.pre), Denoted(e.pre.fids[src].path),
                  Len(e.pre.fids[src].path), WalkElements(e), e.env.io)

(* the reply is Rwalk carrying exactly k QIDs (type, version, path each) *)
IsRwalk(e, k) ==
    /\ RespType(e) = Twalk + 1
    /\ ~e.failed
    /\ Len(e.resp.fields) = 1 + 3 * k
    /\ e.resp.fields[1] = [t |-> "u16", v |-> k]
    /\ RespSize(e) = 7 + 2 + 13 * k

(* C7: the FID table is a well-formed map: at most P9_MAX_FIDS_PER_CLIENT  *)
(* live entries, no two of them with the same fid number; an attach or     *)
(* walk naming as its new fid a live fid number, or arriving when the      *)
(* table is full, adds nothing: it leaves the table unchanged and, unless  *)
(* it is a walk that stops early, it is answered with an error.            *)
C7_FidTableWellFormed ==
    /\ Cardinality({s \in Slots : client.fid_table.fids[s].in_use})
           <= P9_MAX_FIDS_PER_CLIENT
    /\ \A s, t \in Slots :
           (/\ client.fid_table.fids[s].in_use
            /\ client.fid_table.fids[t].in_use
            /\ client.fid_table.fids[s].fid = client.fid_table.fids[t].fid) => s = t
    /\ \A i \in DOMAIN log :
           LET e == log[i] IN
           /\ \A s, t \in Slots :
                  (/\ e.post.fids[s].in_use /\ e.post.fids[t].in_use
                   /\ e.post.fids[s].fid = e.post.fids[t].fid) => s = t
           /\ (ReqType(e) = Tattach /\ (Live(e.pre, ReqU32(e, 7)) \/ Full(e.pre))) =>
                  e.failed /\ e.post.fids = e.pre.fids
           /\ (ReqType(e) = Twalk /\ Live(e.pre, WalkFid(e))
               /\ (Live(e.pre, WalkNewFid(e)) \/ Full(e.pre))) =>
                  /\ e.post.fids = e.pre.fids
                  /\ e.failed \/ Resolved(e) < WalkCount(e)

(* C7's case: an attach for a fid number that is not live arrives when     *)
(* every slot of the table is in use, and is refused                       *)
C7_Witness ==
    \E i \in DOMAIN log :
        /\ ReqType(log[i]) = Tattach
        /\ Full(log[i].pre)
        /\ ~Live(log[i].pre, ReqU32(log[i], 7))
        /\ log[i].failed

(* C7's other case: a walk that resolves every element names a live newfid *)
C7_WitnessWalkLiveFid ==
    \E i \in DOMAIN log :
        /\ IsWalk(log[i])
        /\ Resolved(log[i]) = WalkCount(log[i])
        /\ Live(log[i].pre, WalkNewFid(log[i]))
        /\ WalkNewFid(log[i]) # WalkFid(log[i])
        /\ log[i].failed

C8_WitnessClunk ==
    \E i \in DOMAIN log :
        LET e == log[i] IN
        /\ ReqType(e) = Tclunk
        /\ Len(e.msg) >= 11
        /\ \E s \in LiveSlots(e.pre, ReqU32(e, 7)) : e.pre.fids[s].file.is_open

(* C9: a Twalk of n >= 2 elements that resolves k of them, 1 <= k < n, is  *)
(* answered with Rwalk carrying exactly k QIDs; newfid is not added to the *)
(* FID table and the source FID is unchanged.                              *)
C9_PartialWalk ==
    \A i \in DOMAIN log :
        LET e == log[i] IN
        (IsWalk(e) /\ WalkCount(e) >= 2
         /\ 1 <= Resolved(e) /\ Resolved(e) < WalkCount(e)) =>
            /\ IsRwalk(e, Resolved(e))
            /\ e.post.fids = e.pre.fids

(* C9's case: two elements, the first resolves, the second does not, and   *)
(* newfid is a fid number that is not live                                 *)
C9_Witness ==
    \E i \in DOMAIN log :
        /\ IsWalk(log[i])
        /\ WalkCount(log[i]) = 2
        /\ Resolved(log[i]) = 1
        /\ ~Live(log[i].pre, WalkNewFid(log[i]))
        /\ log[i].written

(* C10: a Twalk of n >= 1 elements whose first element cannot be resolved  *)
(* is answered with an error, not with an Rwalk carrying zero QIDs, and    *)
(* leaves the FID table unchanged.                                         *)
C10_FirstElementFailureIsError ==
    \A i \in DOMAIN log :
        LET e == log[i] IN
        (IsWalk(e) /\ Resolved(e) = 0) =>
            /\ IsErrorReply(e)
            /\ ~IsRwalk(e, 0)
            /\ e.post.fids = e.pre.fids

(* a Twalk with nwname = 0 from a live unopened FID to a fid number that   *)
(* is not live and differs from the source's                               *)
IsClone(e) ==
    /\ ReqType(e) = Twalk
    /\ WalkCount(e) = 0
    /\ Live(e.pre, WalkFid(e))
    /\ WalkNewFid(e) # WalkFid(e)
    /\ ~Live(e.pre, WalkNewFid(e))
    /\ \A s \in LiveSlots(e.pre, WalkFid(e)) : ~e.pre.fids[s].file.is_open

(* the reply has zero QIDs; the table after e is the table before it plus  *)
(* one entry for newfid, with the source's kind, QID and path and no open  *)
(* backend handle                                                          *)
Cloned(e) ==
    /\ IsRwalk(e, 0)
    /\ e.post.nopen = e.pre.nopen
    /\ \E t \in Slots, src \in LiveSlots(e.pre, WalkFid(e)) :
           /\ ~e.pre.fids[t].in_use
           /\ e.post.fids[t].in_use
           /\ e.post.fids[t].fid = WalkNewFid(e)
           /\ e.post.fids[t].type = e.pre.fids[src].type
           /\ e.post.fids[t].qid = e.pre.fids[src].qid
           /\ e.post.fids[t].path = e.pre.fids[src].path
           /\ ~e.post.fids[t].file.is_open
           /\ \A s \in Slots \ {t} : e.post.fids[s] = e.pre.fids[s]

(* the exchange after number i of the history is Tclunk(newfid) and leaves *)
(* the FID table as it was before exchange i                               *)
ClunkRestores(i) ==
    (/\ i + 1 \in DOMAIN log
     /\ ReqType(log[i + 1]) = Tclunk
     /\ ReqU32(log[i + 1], 7) = WalkNewFid(log[i])) =>
        /\ log[i + 1].post.fids = log[i].pre.fids
        /\ log[i + 1].post.next_qid_path = log[i].pre.next_qid_path

(* C11: a Twalk with nwname = 0 from a live unopened FID fid to an unused  *)
(* newfid # fid returns zero QIDs and creates newfid with the kind, QID    *)
(* and path of fid and no open backend handle, leaving every other FID     *)
(* unchanged; a following Tclunk(newfid) restores the FID table to its     *)
(* state before the walk.                                                  *)
C11_CloneThenClunk ==
    \A i \in DOMAIN log :
        IsClone(log[i]) => Cloned(log[i]) /\ ClunkRestores(i)

(* C11 as amended: the same, when the FID table has a free slot *)
C11_CloneThenClunkWithFreeSlot ==
    \A i \in DOMAIN log :
        (IsClone(log[i]) /\ ~Full(log[i].pre)) => Cloned(log[i]) /\ ClunkRestores(i)

(* C11's case: the clone of a live FID and the clunk of the clone arrive   *)
(* in one segment, and both are answered                                   *)
C11_Witness ==
    /\ Len(log) = 2
    /\ IsClone(log[1])
    /\ ~Full(log[1].pre)
    /\ ReqType(log[2]) = Tclunk
    /\ ReqU32(log[2], 7) = WalkNewFid(log[1])
    /\ log[1].written /\ log[2].written
    /\ log[2].post.fids = log[1].pre.fids

(* the last QID of an Rwalk reply: its final three fields *)
LastQid(e) ==
    LET n == Len(e.resp.fields)
    IN [type |-> e.resp.fields[n - 2].v, version |-> e.resp.fields[n - 1].v,
        path |-> e.resp.fields[n].v]

(* the object a walk that resolves every element ends at *)
WalkTarget(e) ==
    LET src == CHOOSE s \in LiveSlots(e.pre, WalkFid(e)) : TRUE
    IN StepAll(Denoted(e.pre.fids[src].path), WalkElements(e))

(* C12: a Twalk with newfid equal to fid is permitted: with nwname = 0 it  *)
(* succeeds and leaves fid unchanged; with nwname >= 1 elements that all   *)
(* resolve it succeeds and fid then holds the final path and QID of the    *)
(* walk.                                                                   *)
C12_WalkOntoSameFid ==
    \A i \in DOMAIN log :
        LET e == log[i] IN
        (/\ ReqType(e) = Twalk
         /\ Live(e.pre, WalkFid(e))
         /\ WalkNewFid(e) = WalkFid(e)
         /\ WalkCount(e) = 0 \/ Resolved(e) = WalkCount(e)) =>
            /\ IsRwalk(e, WalkCount(e))
            /\ IF WalkCount(e) = 0
               THEN e.post.fids = e.pre.fids
               ELSE \E s \in LiveSlots(e.post, WalkFid(e)) :
                       /\ e.post.fids[s].path = WalkTarget(e)
                       /\ e.post.fids[s].qid = LastQid(e)

(* C13: a Twalk with newfid # fid where newfid is already a live FID fails *)
(* with an error reply and leaves the existing newfid entry (kind, QID,    *)
(* path, open state) and the source FID unchanged.                         *)
C13_WalkToLiveFidIsError ==
    \A i \in DOMAIN log :
        LET e == log[i] IN
        (/\ ReqType(e) = Twalk
         /\ Live(e.pre, WalkFid(e))
         /\ WalkNewFid(e) # WalkFid(e)
         /\ Live(e.pre, WalkNewFid(e))) =>
            /\ IsErrorReply(e)
            /\ e.post.fids = e.pre.fids

(* the reply to e is the error string ename *)
FailedWith(e, ename) ==
    e.failed /\ e.resp.fields = <<[t |-> "string", v |-> ename]>>

(* a Topen on a live FID that is not open and whose path the backend       *)
(* cannot open: the medium fails or nothing exists under that path         *)
IsRefusedOpen(e) ==
    /\ ReqType(e) = Topen
    /\ Live(e.pre, ReqU32(e, 7))
    /\ \A s \in LiveSlots(e.pre, ReqU32(e, 7)) :
           /\ ~e.pre.fids[s].file.is_open
           /\ e.env.io \/ ~Exists(SnapBe(e.pre), e.pre.fids[s].path)

C14_WitnessWrite ==
    /\ Len(log) = 2
    /\ IsRefusedOpen(log[1])
    /\ ReqType(log[2]) = Twrite
    /\ ReqU32(log[2], 7) = ReqU32(log[1], 7)

(* C15: a Tread or Twrite on a live FID that has had no successful Topen   *)
(* or Tcreate since it was created is answered with an error and performs  *)
(* no backend seek, read or write.                                         *)
C15_UnopenedAccessRejected ==
    \A i \in DOMAIN log :
        LET e == log[i] IN
        (/\ ReqType(e) \in {Tread, Twrite}
         /\ Live(e.pre, ReqU32(e, 7))
         /\ ReqU32(e, 7) \notin OpenedBefore(opened, log, i)) =>
            /\ e.failed
            /\ OneString(e)
            /\ e.post.nio = e.pre.nio
            /\ SameBackend(e)
            /\ e.post.fids = e.pre.fids

(* C15's case: a Tread on a live FID that was never opened *)
C15_Witness ==
    \E i \in DOMAIN log :
        /\ ReqType(log[i]) = Tread
        /\ Live(log[i].pre, ReqU32(log[i], 7))
        /\ ReqU32(log[i], 7) \notin OpenedBefore(opened, log, i)
        /\ log[i].written

(* the contrary case: a Tread on a FID opened by an earlier p9_tcp_recv    *)
(* call is served                                                          *)
C15_WitnessOpened ==
    \E i \in DOMAIN log :
        /\ ReqType(log[i]) = Tread
        /\ ReqU32(log[i], 7) \in opened
        /\ ReqU32(log[i], 7) \in OpenedBefore(opened, log, i)
        /\ ~log[i].failed
        /\ log[i].post.nio > log[i].pre.nio

(* C15's other case: a Twrite on a live FID that was never opened *)
C15_WitnessWrite ==
    \E i \in DOMAIN log :
        /\ ReqType(log[i]) = Twrite
        /\ Live(log[i].pre, ReqU32(log[i], 7))
        /\ ReqU32(log[i], 7) \notin OpenedBefore(opened, log, i)
        /\ log[i].written

(* the QIDs a reply carries, each with the filesystem object it was issued *)
(* for: [path, obj].  Rattach, Ropen and Rcreate hold one QID in their     *)
(* first three fields, Rwalk one per resolved element after the count,     *)
(* Rstat one inside the stat record.                                       *)
EmittedQids(e) ==
    IF ~e.valid_type \/ e.failed \/ Len(e.msg) < 11 \/ ~Live(e.pre, ReqU32(e, 7))
    THEN IF e.valid_type /\ ~e.failed /\ ReqType(e) = Tattach
         THEN {[path |-> e.resp.fields[3].v, obj |-> Root]}
         ELSE {}
    ELSE LET src == CHOOSE s \in LiveSlots(e.pre, ReqU32(e, 7)) : TRUE
             dir == Denoted(e.pre.fids[src].path)
         IN CASE ReqType(e) = Twalk ->
                   {[path |-> e.resp.fields[1 + 3 * k].v,
                     obj |-> StepAll(dir, SubSeq(WalkElements(e), 1, k))] :
                        k \in 1..((Len(e.resp.fields) - 1) \div 3)}
              [] ReqType(e) = Topen ->
                   {[path |-> e.resp.fields[3].v, obj |-> dir]}
              [] ReqType(e) = Tcreate ->
                   {[path |-> e.resp.fields[3].v,
                     obj |-> Denoted(e.post.fids[src].path)]}
              [] ReqType(e) = Tstat ->
                   {[path |-> e.resp.fields[2].v.qid.path, obj |-> dir]}
              [] OTHER -> {}

(* C16: within one session QID paths are unique: a path value emitted in a *)
(* QID for one filesystem object is never emitted for a different object;  *)
(* the root's path 1 is never used for an object other than the root, and  *)
(* the reserved value 0 is never emitted.  Stated over the QIDs of the     *)
(* replies of one p9_tcp_recv call and the root's QID.                     *)
C16_QidPathsUnique ==
    \A i, j \in DOMAIN log :
        \A p \in EmittedQids(log[i]), q \in EmittedQids(log[j]) :
            /\ p.path # 0
            /\ p.obj # Root => p.path # 1
            /\ p.path = q.path => p.obj = q.obj

(* the components of a path: the runs of characters between its '/' *)
RECURSIVE ComponentsFrom(_, _)
ComponentsFrom(name, rest) ==
    IF rest = <<>> THEN {name}
    ELSE IF Head(rest) = ChSlash THEN {name} \cup ComponentsFrom(<<>>, Tail(rest))
    ELSE ComponentsFrom(Append(name, Head(rest)), Tail(rest))

(* absolute, non-empty, no "." or ".." component and no repeated '/' *)
NormalizedPath(path) ==
    /\ path # <<>>
    /\ path[1] = ChSlash
    /\ <<ChDot>> \notin ComponentsFrom(<<>>, path)
    /\ <<ChDot, ChDot>> \notin ComponentsFrom(<<>>, path)
    /\ \A k \in 1..(Len(path) - 1) : ~(path[k] = ChSlash /\ path[k + 1] = ChSlash)

(* C17: in every reachable state the path stored in every live FID is      *)
(* non-empty, starts with '/' and is normalized (no "." or ".." component, *)
(* no repeated '/'); after a successful walk the new FID holds the         *)
(* resolved path, so that ".." from the root yields "/".                   *)
C17_FidPathsNormalized ==
    /\ \A s \in Slots :
           client.fid_table.fids[s].in_use =>
               NormalizedPath(client.fid_table.fids[s].path)
    /\ \A i \in DOMAIN log :
           LET e == log[i] IN
           (/\ IsWalk(e)
            /\ ~e.failed
            /\ Resolved(e) = WalkCount(e)
            /\ ~Live(e.pre, WalkNewFid(e))) =>
               \A s \in LiveSlots(e.post, WalkNewFid(e)) :
                   e.post.fids[s].path = WalkTarget(e)

(* C18: every response sent in a session has a total size (the size field  *)
(* of its header and the number of bytes handed to tcp_write) no larger    *)
(* than the session's negotiated msize: for an Rversion the msize it       *)
(* announces, for any other response the msize in force.                   *)
C18_ResponseWithinMsize ==
    \A i \in DOMAIN log :
        log[i].written =>
            /\ RespSize(log[i]) <= log[i].post.max_msg_size
            /\ log[i].resp.len <= log[i].post.max_msg_size

(* the fields of a Tread request: fid, offset and count *)
ReadOffset(e) == SubSeq(e.msg, 12, 19)
ReadCount(e) == CountVal(ReqU32(e, 19))

(* a Tread on a live FID that is open, answered with Rread *)
IsServedRead(e) ==
    /\ ReqType(e) = Tread
    /\ ~e.failed
    /\ \E s \in LiveSlots(e.pre, ReqU32(e, 7)) : e.pre.fids[s].file.is_open

(* the number of data bytes an Rread carries: its count field *)
ReadBytes(e) == e.resp.fields[1].v

(* C19: for every Tread on an opened FID (file or directory), every count  *)
(* and every negotiated msize, the number of data bytes placed in Rread is *)
(* at most min(count, msize - 11), taken as numbers (no data at all when   *)
(* msize is 11 or less), and the reply fits the transmit buffer.           *)
C19_ReadCountClamped ==
    \A i \in DOMAIN log :
        LET e == log[i] IN
        IsServedRead(e) =>
            /\ ReadBytes(e) <= ReadCount(e)
            /\ ReadBytes(e) <= (IF e.pre.max_msg_size > 11
                                THEN e.pre.max_msg_size - 11 ELSE 0)
            /\ e.resp.len = 11 + ReadBytes(e)
            /\ e.resp.len <= P9_MAX_MSG_SIZE

(* a 64-bit offset is below n, for n < 2^24 *)
Offset64Below(o, n) ==
    /\ \A k \in 4..8 : o[k] = 0
    /\ LEVal(SubSeq(o, 1, 3)) < n

(* a Tread on a live FID that is an open regular file found on the volume  *)
(* when it was mounted (FileLen bytes long), while the medium works        *)
IsFileRead(e) ==
    /\ ReqType(e) = Tread
    /\ ~e.env.io
    /\ \E s \in LiveSlots(e.pre, ReqU32(e, 7)) :
           /\ e.pre.fids[s].file.is_open
           /\ e.pre.fids[s].type = "FILE"
           /\ e.pre.fids[s].path \in e.pre.files \cap InitBackend.files

(* C20: a Tread on an opened file FID at a 64-bit offset at or beyond the  *)
(* file length returns Rread with count 0; at an offset below the length  *)
(* it returns the bytes from that offset on, as many as count and the      *)
(* file's length allow; the offset is not reduced modulo 2^32.             *)
C20_ReadAtOffset64 ==
    \A i \in DOMAIN log :
        LET e == log[i] IN
        IsFileRead(e) =>
            /\ ~e.failed
            /\ RespType(e) = Tread + 1
            /\ IF Offset64Below(ReadOffset(e), FileLen)
               THEN LET avail == FileLen - LEVal(SubSeq(ReadOffset(e), 1, 3))
                    IN ReadBytes(e) = IF ReadCount(e) < avail THEN ReadCount(e)
                                      ELSE avail
               ELSE ReadBytes(e) = 0

(***************************************************************************)
(* Directory reads                                                         *)
(***************************************************************************)
(* a Tread answered with Rread on a live FID that is an open directory of  *)
(* the volume, while the medium works                                      *)
IsDirRead(e) ==
    /\ ReqType(e) = Tread
    /\ ~e.failed
    /\ ~e.env.io
    /\ \E s \in LiveSlots(e.pre, ReqU32(e, 7)) :
           /\ e.pre.fids[s].file.is_open
           /\ e.pre.fids[s].type = "DIR"
           /\ e.pre.fids[s].path \in e.pre.dirs

(* the directory a Tread names *)
ReadDir(e) ==
    LET s == CHOOSE s \in LiveSlots(e.pre, ReqU32(e, 7)) : TRUE
    IN e.pre.fids[s].path

(* the length of the stat record of the entry at path q, with its leading  *)
(* size field                                                              *)
RecordLen(q) == p9_stat_size([name |-> BaseName(q)]) + 2

RECURSIVE TotalLen(_)
TotalLen(entries) ==
    IF entries = {} THEN 0
    ELSE LET q == CHOOSE q \in entries : TRUE
         IN RecordLen(q) + TotalLen(entries \ {q})

(* C21: the data of an Rread on an opened directory FID is a concatenation *)
(* of zero or more complete stat records of entries of that directory and  *)
(* nothing else: its length is the total length of the records of some     *)
(* entries, and it is within the count asked for.                          *)
C21_DirReadIsWholeRecords ==
    \A i \in DOMAIN log :
        LET e == log[i] IN
        IsDirRead(e) =>
            /\ ReadBytes(e) <= ReadCount(e)
            /\ \E entries \in SUBSET Children(SnapBe(e.pre), ReadDir(e)) :
                   ReadBytes(e) = TotalLen(entries)

(* C22: a Tread with offset 0 on an opened directory FID starts the        *)
(* iteration at the directory's first entry: the reply holds the records   *)
(* of the first entries and the iterator is left right behind the entries  *)
(* returned, so that the reads that follow return every other entry once.  *)
C22_OffsetZeroRestarts ==
    \A i \in DOMAIN log :
        LET e == log[i] IN
        (IsDirRead(e) /\ ReadOffset(e) = Offset0) =>
            \E entries \in SUBSET Children(SnapBe(e.pre), ReadDir(e)) :
                /\ ReadBytes(e) = TotalLen(entries)
                /\ \A s \in LiveSlots(e.post, ReqU32(e, 7)) :
                       e.post.fids[s].file.dir_pos = Cardinality(entries)

(***************************************************************************)
(* Sessions and the server                                                 *)
(***************************************************************************)
(* the last connection event ended the session of slot event.slot: the     *)
(* peer closed, the TCP layer reported an error, or p9_tcp_recv refused a  *)
(* header                                                                  *)
SessionEnded == event.op \in {"closed", "framing"}

(* C23: when a session has ended (peer close, TCP error or framing error)  *)
(* its FID table has no live FID, every backend handle it had opened is    *)
(* closed, its slot is inactive and is there for a new connection, and     *)
(* active_connections is one less than before; p9_client_close on a slot   *)
(* that is not active changes nothing.                                     *)
C23_SessionEndReleasesAll ==
    /\ SessionEnded =>
           LET c == g_server.clients[event.slot] IN
           /\ ~c.active
           /\ \A s \in Slots : ~c.fid_table.fids[s].in_use
           /\ handles[event.slot] = 0
           /\ FreeSlot(g_server) # 0
           /\ g_server.stats.active_connections = event.active_before - 1
    /\ \A i \in Clients \ ActiveSlots(g_server) :
           p9_client_close(World(g_server.clients[i], backend))
               = World(g_server.clients[i], backend)

SessionCount == Cardinality(ActiveSlots(g_server))

(* C24: the number of active sessions never exceeds P9_MAX_CLIENTS and is  *)
(* always stats.active_connections; a connection arriving while every slot *)
(* is active is closed at once and changes no session; a connection        *)
(* arriving while a slot is free gets a session in state CONNECTED with an *)
(* empty FID table, an empty receive buffer and QID counter 1, whatever    *)
(* the slot's previous session left behind.                                *)
C24_SessionsBounded ==
    /\ [](/\ SessionCount <= P9_MAX_CLIENTS
          /\ SessionCount = g_server.stats.active_connections)
    /\ [](event.op = "accept" =>
              LET c == g_server.clients[event.slot] IN
              /\ c = FreshClient
              /\ c.state = "CONNECTED"
              /\ \A s \in Slots : ~c.fid_table.fids[s].in_use
              /\ c.fid_table.next_qid_path = 1
              /\ c.rx_buffer = <<>>)
    /\ [][(server_tcp_accept /\ FreeSlot(g_server) = 0) =>
              /\ event'.op = "reject"
              /\ g_server' = g_server
              /\ backend' = backend]_vars
    /\ [][(server_tcp_accept /\ FreeSlot(g_server) # 0) =>
              /\ event'.op = "accept"
              /\ event'.slot = FreeSlot(g_server)
              /\ \A j \in Clients \ {FreeSlot(g_server)} :
                     g_server'.clients[j] = g_server.clients[j]]_vars

(* a session has just been given a slot whose previous session left an     *)
(* attached state and bytes in the receive buffer behind                   *)
C24_Witness ==
    /\ event.op = "accept"
    /\ event.prev.state = "ATTACHED"
    /\ event.prev.rx_buffer # <<>>
    /\ g_server.stats.total_connections > 1

(* a connection has just been refused with every slot active *)
C24_WitnessReject ==
    /\ event.op = "reject"
    /\ ActiveSlots(g_server) = Clients

(* C28: p9_server_stop, called while the server is RUNNING with any number *)
(* of active sessions, terminates: while it is in progress it can always   *)
(* take its next step (its loop has at most P9_MAX_CLIENTS rounds), and    *)
(* when it has returned the state is STOPPED, no session is active, the    *)
(* listener is closed and the server mutex is free.                        *)
C28_StopTerminates ==
    /\ core1_pc = "stop" => ENABLED p9_server_stop_clients
    /\ event.op = "stopped" =>
           /\ g_server.state = "STOPPED"
           /\ ActiveSlots(g_server) = {}
           /\ ~g_server.listen_pcb
           /\ g_server.mutex = "free"


(***************************************************************************)
(* The storage lock                                                        *)
(***************************************************************************)
(* C25: no two backend operations execute concurrently: a backend call of  *)
(* Core 1 (inside a fat32_sync_* wrapper) and a backend call of Core 0     *)
(* (startup script, menu) each execute only while their caller holds the   *)
(* storage mutex.                                                          *)
C25_BackendCallsExclusive ==
    /\ ~(handler.pc = "in_call" /\ foreground.inside)
    /\ handler.pc = "in_call" => fat32_mutex = "core1"
    /\ foreground.inside => fat32_mutex = "core0"

(* C26: a fat32_sync_* wrapper holds the mutex for exactly one backend     *)
(* call and returns, on success, backend error and lock timeout alike,     *)
(* with the mutex not held by Core 1: Core 1 holds it exactly from the     *)
(* successful fat32_sync_lock to fat32_sync_unlock of one wrapper, never   *)
(* between two wrappers of a handler nor while the response is sent, and   *)
(* unless a caller of the exported pair holds it the mutex is free         *)
(* whenever no wrapper is in progress.                                     *)
C26_OneCallPerAcquire ==
    /\ fat32_mutex = "core1" <=> handler.pc \in {"call", "in_call", "unlock"}
    /\ handler.held <= 1
    /\ handler.pc = "unlock" => handler.held = 1
    /\ (handler.pc \in {"idle", "lock", "returned", "respond"}
        /\ fat32_mutex # "batch") => fat32_mutex = "free"

(* a Tread whose seek went through and whose read gave up waiting for the  *)
(* mutex stands before its response                                        *)
C26_Witness ==
    /\ handler.pc = "respond"
    /\ handler.type = Tread
    /\ handler.done = <<"seek">>
    /\ handler.timeout
    /\ handler.out.type = Rerror

(* a Tread has made its two backend calls, each under its own acquire *)
C26_WitnessTwoCalls ==
    /\ handler.pc = "respond"
    /\ handler.type = Tread
    /\ handler.done = <<"seek", "read">>
    /\ handler.out.type = Tread + 1
    /\ fat32_mutex = "free"

(* the strings of section 7 that name an I/O or storage-busy condition *)
IoErrorNames == {"i/o error", "storage busy"}

(* C27: when a wrapper called by a handler could not take the mutex within *)
(* the timeout, its backend call is not executed, the response is an       *)
(* Rerror naming an I/O or storage-busy condition, and the FID is as it    *)
(* was before the request.                                                 *)
C27_LockTimeoutIsIoError ==
    /\ (handler.pc = "returned" /\ handler.err = "FAT32_ERROR_INIT_FAILED") =>
           \A k \in 1..Len(handler.done) : handler.done[k] # Head(handler.calls)
    /\ (handler.pc = "respond" /\ handler.timeout) =>
           /\ handler.out.type = Rerror
           /\ handler.out.ename \in IoErrorNames
           /\ fid_entry = handler.pre

(* the part of C27 the code keeps: the call that gave up was not executed, *)
(* and a Topen or Tread that gave up answers Rerror and leaves the FID     *)
C27_TimeoutSkipsCall ==
    /\ (handler.pc = "returned" /\ handler.err = "FAT32_ERROR_INIT_FAILED") =>
           \A k \in 1..Len(handler.done) : handler.done[k] # Head(handler.calls)
    /\ (handler.pc = "respond" /\ handler.timeout
        /\ handler.type \in {Topen, Tread}) =>
           /\ handler.out.type = Rerror
           /\ fid_entry = handler.pre


(***************************************************************************)
(* Version negotiation and header-only messages                            *)
(***************************************************************************)
(* the version string of a Tversion: msize at bytes 7..10, then the string *)
ReqVersion(e) == SubSeq(e.msg, 14, 13 + LEVal(SubSeq(e.msg, 12, 13)))

StartsWith(s, p) == Len(s) >= Len(p) /\ SubSeq(s, 1, Len(p)) = p

(* the smaller of the msize of a Tversion and the server's ceiling *)
MinMsize(e) ==
    IF U32Gt(ReqU32(e, 7), P9_MAX_MSG_SIZE) THEN P9_MAX_MSG_SIZE
    ELSE U32Small(ReqU32(e, 7))

(* C29: the Rversion for a Tversion with msize m and version v carries     *)
(* min(m, ceiling); if v starts with "9P2000" it carries "9P2000.u" and    *)
(* the session is versioned afterwards; otherwise it carries "unknown" and *)
(* the session is connected afterwards, whatever it was before.            *)
C29_VersionNegotiation ==
    \A i \in DOMAIN log :
        LET e == log[i] IN
        (ReqType(e) = Tversion /\ ~e.failed) =>
            /\ e.resp.fields[1].v = MinMsize(e)
            /\ IF StartsWith(ReqVersion(e), StrVersion9P2000)
               THEN /\ e.resp.fields[2].v = "9P2000.u"
                    /\ e.post.state = "VERSION_NEGOTIATED"
               ELSE /\ e.resp.fields[2].v = "unknown"
                    /\ e.post.state = "CONNECTED"

(* the part of C29 the code keeps: the msize echoed, and the outcome for   *)
(* the exact string "9P2000.u"                                             *)
C29_ExactVersion ==
    \A i \in DOMAIN log :
        LET e == log[i] IN
        (ReqType(e) = Tversion /\ ~e.failed) =>
            /\ e.resp.fields[1].v = MinMsize(e)
            /\ e.post.max_msg_size = MinMsize(e)
            /\ IF ReqVersion(e) = StrVersion9P2000u
               THEN /\ e.resp.fields[2].v = "9P2000.u"
                    /\ e.post.state = "VERSION_NEGOTIATED"
               ELSE /\ e.resp.fields[2].v = "unknown"
                    /\ e.post.state = e.pre.state


(* C30: a message whose header size is 7 (no payload) is answered with an  *)
(* Rerror whatever its type byte is, and leaves the session's FID table    *)
(* and the backend unchanged.                                              *)
C30_HeaderOnlyIsRerror ==
    \A i \in DOMAIN log :
        LET e == log[i] IN
        e.size = 7 =>
            /\ RespType(e) = Rerror
            /\ e.post.fids = e.pre.fids
            /\ SameBackend(e)

(* the part of C30 the code keeps: a header-only message of a type the     *)
(* dispatcher does not know is answered with Rerror and changes nothing    *)
C30_UnknownHeaderOnly ==
    \A i \in DOMAIN log :
        LET e == log[i] IN
        (e.size = 7 /\ ~e.valid_type) =>
            /\ RespType(e) = Rerror
            /\ e.post.fids = e.pre.fids
            /\ SameBackend(e)


(***************************************************************************)
(* Functions taken by themselves                                           *)
(***************************************************************************)
(* a call of p9_normalize_path has returned true for an input that, with   *)
(* its NUL, is no longer than the buffer                                   *)
Normalized ==
    /\ call.fn = "p9_normalize_path"
    /\ call.done
    /\ call.out.ok
    /\ Len(call.arg[1]) < call.arg[2]

(* C40: for an input that fits the buffer, the path p9_normalize_path      *)
(* produces starts with '/', has no "." or ".." component, no "//" and no  *)
(* trailing '/' unless it is the root, and normalizing it again returns it *)
(* unchanged.                                                              *)
C40_NormalizeIsNormalForm ==
    Normalized =>
        /\ NormalizedPath(call.out.path)
        /\ (call.out.path # Root => call.out.path[Len(call.out.path)] # ChSlash)
        /\ call.again => call.out.path = call.arg[1]

(* the part of C40 the code keeps: the result starts with '/' and has no   *)
(* "." or ".." component                                                   *)
C40_NoDotComponents ==
    Normalized =>
        /\ call.out.path # <<>>
        /\ call.out.path[1] = ChSlash
        /\ <<ChDot>> \notin ComponentsFrom(<<>>, call.out.path)
        /\ <<ChDot, ChDot>> \notin ComponentsFrom(<<>>, call.out.path)


(* the bytes of a p9_string_t: none for a null pointer *)
Content(s) == IF s.str = Null THEN <<>> ELSE SubSeq(s.str, 1, s.len)

SameString(a, b) == a.len = b.len /\ Content(a) = Content(b)

(* two stat records hold equal values in every member *)
SameStat(a, b) ==
    /\ a.size = b.size /\ a.type = b.type /\ a.dev = b.dev /\ a.qid = b.qid
    /\ a.mode = b.mode /\ a.atime = b.atime /\ a.mtime = b.mtime
    /\ a.length = b.length
    /\ SameString(a.name, b.name) /\ SameString(a.uid, b.uid)
    /\ SameString(a.gid, b.gid) /\ SameString(a.muid, b.muid)
    /\ SameString(a.extension, b.extension)
    /\ a.n_uid = b.n_uid /\ a.n_gid = b.n_gid /\ a.n_muid = b.n_muid

(* the value read equals the value written *)
SameValue(kind, written, read) ==
    IF kind = "string" THEN SameString(P9String(written), read)
    ELSE IF kind = "stat" THEN SameStat(written, read)
    ELSE read = written

(* the value of the call went through its writer and its reader with the   *)
(* same advance, no error flag, and came back equal                        *)
RoundTrip ==
    /\ ~call.out.written.error
    /\ ~call.out.read.msg.error
    /\ call.out.read.msg.pos = call.out.written.pos
    /\ SameValue(call.fn, call.arg[1], call.out.read.val)

(* C31: a u8, u16, u32 or u64 value, a string, a QID or a stat record      *)
(* written with its p9_write_* function into a buffer with enough capacity *)
(* and read back from the same position with the matching p9_read_*        *)
(* function comes back equal, with the same cursor advance and no error    *)
(* flag set.                                                               *)
C31_WriteReadRoundTrip == call.step = "read" => RoundTrip

(* a stat record as p9_fat_to_stat could have built it, had it set the     *)
(* size member: no string member is a null pointer that p9_write_stat      *)
(* replaces, and size holds p9_stat_size                                   *)
CompleteStat(stat) ==
    /\ stat.uid.str # Null /\ stat.gid.str # Null /\ stat.muid.str # Null
    /\ stat.size = StatSize(stat)

(* the part of C31 the code keeps: every value other than a stat record,   *)
(* and every complete stat record                                          *)
C31_CompleteRoundTrip ==
    (call.step = "read" /\ (call.fn = "stat" => CompleteStat(call.arg[1]))) =>
        RoundTrip


(***************************************************************************)
(* Tcreate                                                                 *)
(***************************************************************************)
IsCreate(e) == ReqType(e) = Tcreate /\ e.valid_type

(* the request as p9_process_message hands it to the handler: the cursor   *)
(* behind the header                                                       *)
RequestCursor(e) == p9_msg_init_read(e.msg, Len(e.msg))

(* the perm the handler read from the request *)
CreatePerm(e) == CreateFields(RequestCursor(e)).perm.val

(* the paths the request added to the backend *)
NewDirs(e) == e.post.dirs \ e.pre.dirs
NewFiles(e) == e.post.files \ e.pre.files

(* C32: a successful Tcreate creates a directory and leaves the FID with   *)
(* kind directory and QID type 0x80 if bit 0x80000000 of perm is set, and  *)
(* otherwise creates a plain file and leaves the FID with kind file and    *)
(* QID type 0x00.                                                          *)
C32_CreateKindFromDMDIR ==
    \A i \in DOMAIN log :
        LET e == log[i] IN
        (IsCreate(e) /\ ~e.failed) =>
            \A s \in LiveSlots(e.post, ReqU32(e, 7)) :
                IF U32Bit(CreatePerm(e), 31)
                THEN /\ e.post.fids[s].type = "DIR"
                     /\ e.post.fids[s].qid.type = P9_QTDIR
                     /\ NewDirs(e) = {e.post.fids[s].path}
                     /\ NewFiles(e) = {}
                ELSE /\ e.post.fids[s].type = "FILE"
                     /\ e.post.fids[s].qid.type = P9_QTFILE
                     /\ NewFiles(e) = {e.post.fids[s].path}
                     /\ NewDirs(e) = {}

(* what the code does instead: the kind follows bit 0040000 of perm *)
C32_CreateKindFromOctalBit ==
    \A i \in DOMAIN log :
        LET e == log[i] IN
        (IsCreate(e) /\ ~e.failed) =>
            \A s \in LiveSlots(e.post, ReqU32(e, 7)) :
                IF U32Bit(CreatePerm(e), 14)
                THEN /\ e.post.fids[s].type = "DIR"
                     /\ e.post.fids[s].qid.type = P9_QTDIR
                     /\ NewDirs(e) = {e.post.fids[s].path}
                     /\ NewFiles(e) = {}
                ELSE /\ e.post.fids[s].type = "FILE"
                     /\ e.post.fids[s].qid.type = P9_QTFILE
                     /\ NewFiles(e) = {e.post.fids[s].path}
                     /\ NewDirs(e) = {}

(* C33: a Tcreate on a directory FID that fails leaves the FID as it was:  *)
(* kind directory, same path, QID, open state and backend handle.          *)
C33_FailedCreateLeavesFid ==
    \A i \in DOMAIN log :
        LET e == log[i] IN
        (IsCreate(e) /\ e.failed) =>
            \A s \in LiveSlots(e.pre, ReqU32(e, 7)) :
                e.pre.fids[s].type = "DIR" => e.post.fids[s] = e.pre.fids[s]

(* the part of C33 the code keeps: path, QID, open state and mode stay *)
C33_FailedCreateKeepsPath ==
    \A i \in DOMAIN log :
        LET e == log[i] IN
        (IsCreate(e) /\ e.failed) =>
            \A s \in LiveSlots(e.pre, ReqU32(e, 7)) :
                e.pre.fids[s].type = "DIR" =>
                    e.post.fids[s] = [e.pre.fids[s] EXCEPT !.type = e.post.fids[s].type]

(* The fields of a Tcreate laid out as 9P2000.u has them: fid[4] name[s]   *)
(* perm[4] mode[1] behind the 7 header bytes.                              *)
WireNameLen(e) == LEVal(SubSeq(e.msg, 12, 13))
WireName(e) == SubSeq(e.msg, 14, 13 + WireNameLen(e))
WirePerm(e) == SubSeq(e.msg, 14 + WireNameLen(e), 17 + WireNameLen(e))
WireMode(e) == e.msg[18 + WireNameLen(e)]
WellFormedCreate(e) ==
    /\ IsCreate(e)
    /\ Len(e.msg) >= 13
    /\ Len(e.msg) = 18 + WireNameLen(e)

(* C36: for a well-formed Tcreate in the field order fid, name, perm, mode *)
(* the values the handler decodes are the values the client encoded: the   *)
(* name, the perm and the mode.                                            *)
C36_CreateFieldOrder ==
    \A i \in DOMAIN log :
        LET e == log[i]
            rd == CreateFields(RequestCursor(e))
        IN WellFormedCreate(e) =>
               /\ rd.name.ok
               /\ rd.name.val = WireName(e)
               /\ rd.perm.val = WirePerm(e)
               /\ rd.mode.val = WireMode(e)


(* the FIDs of the session that are live and hold an open backend file *)
OwningFids ==
    {s \in Slots : /\ client.fid_table.fids[s].in_use
                   /\ client.fid_table.fids[s].file.is_open}

(* C34: no backend file handle is leaked: after any sequence of requests   *)
(* and disconnects every backend file opened and not yet closed is owned   *)
(* by exactly one live FID of a live session, so the backend holds as many *)
(* open files as there are live FIDs with an open file.                    *)
C34_NoHandleLeak ==
    backend.nopen = IF client.active THEN Cardinality(OwningFids) ELSE 0


(* the session and backend of snapshot sn, with buf in the receive buffer *)
WorldOf(sn, buf) ==
    [c |-> [FreshClient EXCEPT !.active = sn.active, !.state = sn.state,
                               !.max_msg_size = sn.max_msg_size,
                               !.fid_table = [fids |-> sn.fids,
                                              next_qid_path |-> sn.next_qid_path],
                               !.rx_buffer = buf],
     be |-> SnapBe(sn), nio |-> sn.nio, used |-> sn.used]

(* exchange e handled again with nothing but its own e.size bytes in the   *)
(* receive buffer                                                          *)
Alone(e) == p9_process_message(WorldOf(e.pre, e.msg), e.env).entry

(* the number of data bytes a Twrite of e.size bytes carries *)
WritePayload(e) == e.size - 23

(* C35: while handling a request of header size S no handler uses a byte   *)
(* of the receive buffer at offset S or beyond: the request is handled as  *)
(* it is with only its own S bytes buffered, and a Twrite passes at most   *)
(* S - 23 data bytes to the backend.                                       *)
C35_NoUseBeyondSize ==
    \A i \in DOMAIN log :
        LET e == log[i] IN
            /\ Alone(e).post = e.post
            /\ Alone(e).failed = e.failed
            /\ Alone(e).resp.fields = e.resp.fields
            /\ (ReqType(e) = Twrite /\ ~IsErrorReply(e)) =>
                   e.resp.fields[1].v <= WritePayload(e)

(* C35's first part taken alone *)
C35_HandledAsAlone ==
    \A i \in DOMAIN log :
        /\ Alone(log[i]).post = log[i].post
        /\ Alone(log[i]).resp.fields = log[i].resp.fields

(* C35's second part taken alone *)
C35_WriteWithinPayload ==
    \A i \in DOMAIN log :
        (ReqType(log[i]) = Twrite /\ ~IsErrorReply(log[i])) =>
            log[i].resp.fields[1].v <= WritePayload(log[i])


(* a Twalk of n elements that all resolve, naming a new fid that can be    *)
(* allocated                                                               *)
WalkOfAll(e, n) ==
    /\ IsWalk(e)
    /\ WalkCount(e) = n
    /\ Resolved(e) = n
    /\ ~Live(e.pre, WalkNewFid(e))
    /\ ~Full(e.pre)

(* C37: a Twalk uses the name and QID arrays of its handler only at        *)
(* indices below P9_MAX_WALK_ELEMENTS; one with nwname = 16 whose elements *)
(* all resolve is answered with 16 QIDs; one with nwname > 16 is answered  *)
(* with an error, resolves no element (no QID path is drawn) and           *)
(* allocates no FID.                                                       *)
C37_WalkArraysInBounds ==
    \A i \in DOMAIN log :
        LET e == log[i] IN
            /\ e.post.used <= P9_MAX_WALK_ELEMENTS
            /\ WalkOfAll(e, P9_MAX_WALK_ELEMENTS) => IsRwalk(e, P9_MAX_WALK_ELEMENTS)
            /\ (IsWalk(e) /\ WalkCount(e) > P9_MAX_WALK_ELEMENTS) =>
                   /\ IsErrorReply(e)
                   /\ e.post.fids = e.pre.fids
                   /\ e.post.next_qid_path = e.pre.next_qid_path

(* C37's case nwname = 16 taken alone: 16 elements that all resolve yield  *)
(* 16 QIDs and use the entries 0 .. 15                                     *)
C37_SixteenElementsWalked ==
    \A i \in DOMAIN log :
        WalkOfAll(log[i], P9_MAX_WALK_ELEMENTS) =>
            /\ IsRwalk(log[i], P9_MAX_WALK_ELEMENTS)
            /\ log[i].post.used = P9_MAX_WALK_ELEMENTS

C37_WitnessSixteen ==
    \E i \in DOMAIN log :
        /\ WalkOfAll(log[i], P9_MAX_WALK_ELEMENTS)
        /\ IsRwalk(log[i], P9_MAX_WALK_ELEMENTS)


(* the bytes of the requests of history h, one after the other *)
RECURSIVE Dispatched(_)
Dispatched(h) == IF h = <<>> THEN <<>> ELSE Head(h).msg \o Dispatched(Tail(h))

(* C38: every byte delivered to a session and acknowledged is consumed as  *)
(* part of a dispatched message or kept, in order, in the receive buffer:  *)
(* after a p9_tcp_recv call that leaves the session open, the bytes that   *)
(* were buffered followed by the segment are the dispatched messages       *)
(* followed by the bytes now buffered.                                     *)
C38_NoDeliveredByteLost ==
    (call.fn = "p9_tcp_recv" /\ framer.verdict = "NeedMore") =>
        call.arg[2] \o call.arg[1] = Dispatched(log) \o client.rx_buffer

(* C38 for a segment that fits the space left in the receive buffer *)
C38_FittingSegmentKept ==
    (/\ call.fn = "p9_tcp_recv"
     /\ framer.verdict = "NeedMore"
     /\ Len(call.arg[2]) + Len(call.arg[1]) <= P9_MAX_MSG_SIZE) =>
        call.arg[2] \o call.arg[1] = Dispatched(log) \o client.rx_buffer

C38_WitnessFitting ==
    /\ call.fn = "p9_tcp_recv"
    /\ framer.verdict = "NeedMore"
    /\ Len(call.arg[2]) + Len(call.arg[1]) = P9_MAX_MSG_SIZE
    /\ Len(call.arg[2]) > 0
    /\ Len(log) = 1


(* a start attempt in which tcp_new, tcp_bind and tcp_listen succeed and   *)
(* that leaves the server running                                          *)
StartSucceeds == p9_server_start /\ g_server'.state = "RUNNING"

(* Core 1 is in its loop with a start requested and the server not running *)
StartPending ==
    /\ server_should_run
    /\ core1_pc = "loop"
    /\ g_server.state # "RUNNING"

(* C39: once a start is requested and not withdrawn the server reaches     *)
(* RUNNING provided the socket calls succeed, whatever happened before: in *)
(* every state where Core 1 is about to attempt a start, the attempt in    *)
(* which the socket calls succeed is possible and leaves the server        *)
(* RUNNING; an earlier failed attempt does not prevent it.                 *)
C39_StartCanAlwaysSucceed == StartPending => ENABLED StartSucceeds

(* C39 for a server that has had no failed start attempt *)
C39_StartFromStoppedSucceeds ==
    (StartPending /\ g_server.state = "STOPPED") => ENABLED StartSucceeds

=============================================================================
